---- MODULE Spec2Model ----
(***************************************************************************)
(* Model of the arcade game: Game, Board, Enemy, Player and                *)
(* CharacterSelector (the game logic file) driven by the Engine            *)
(* (js/engine.js, second revision: character selector, pause and quit).    *)
(*                                                                         *)
(* Strings that the code indexes (blocks, items) are sequences of          *)
(* one-character strings, read and written with JavaScript's charAt and    *)
(* substring semantics.  Enemy positions, speeds and frame times are       *)
(* exact rationals <<numerator, denominator>>.  Every handler is a         *)
(* function from a state record to the set of state records it can         *)
(* return in (one per outcome of Math.random).                             *)
(***************************************************************************)
EXTENDS Integers, Sequences, FiniteSets, TLC

(***************************************************************************)
(* Bounds of the exploration.                                              *)
(***************************************************************************)
\* how many of the authored levels the game is loaded with (a prefix)
NumLevels == 2
\* how many one-second timers may be pending at once
MaxTimers == 1
\* how many items placed by the help key may lie on the board at once
MaxHelps == 1
\* how far the level counter may run past the last level
MaxOver == 2
\* how many frame-loop callbacks may be scheduled at once
MaxRaf == 2
\* how many click handlers may pile up on a button
MaxHandlers == 1

(***************************************************************************)
(* Program constants.                                                      *)
(***************************************************************************)
InitialMinEnemySpeed == 1
InitialMaxEnemySpeed == 5
MaxLives == 3

Block == [Water |-> "W", Grass |-> "G", Stone |-> "S"]

Item == [BlueGem |-> "b", GreenGem |-> "g", OrangeGem |-> "o", Heart |-> "h",
         Key |-> "k", Rock |-> "r", Star |-> "s", None |-> "n"]

\* the value of a property that was never assigned
Undefined == <<"undefined">>

(***************************************************************************)
(* Rational numbers <<n, d>>, d > 0, in lowest terms.                      *)
(***************************************************************************)
Abs(n) == IF n < 0 THEN -n ELSE n

RECURSIVE Gcd(_, _)
Gcd(a, b) == IF b = 0 THEN a ELSE Gcd(b, a % b)

Q(n, d) ==
    LET g == Gcd(Abs(n), d) IN
    IF n = 0 THEN <<0, 1>> ELSE <<n \div g, d \div g>>

QInt(n) == <<n, 1>>
QAdd(a, b) == Q(a[1] * b[2] + b[1] * a[2], a[2] * b[2])
QMul(a, b) == Q(a[1] * b[1], a[2] * b[2])
QDiv(a, b) == IF b[1] > 0 THEN Q(a[1] * b[2], a[2] * b[1]) ELSE Q(-(a[1] * b[2]), a[2] * (-b[1]))
QLess(a, b) == a[1] * b[2] < b[1] * a[2]
QAbs(a) == <<Abs(a[1]), a[2]>>
QIsInt(a) == a[2] = 1

(***************************************************************************)
(* JavaScript strings as sequences of characters.                          *)
(***************************************************************************)
Clamp(i, n) == IF i < 0 THEN 0 ELSE IF i > n THEN n ELSE i

\* s.charAt(i): the empty string outside the string
charAt(s, i) == IF 0 <= i /\ i < Len(s) THEN s[i + 1] ELSE ""

\* s.substring(a, b): both ends clamped to the string, swapped when a > b
substring(s, a, b) ==
    LET ca == Clamp(a, Len(s))
        cb == Clamp(b, Len(s))
        lo == IF ca < cb THEN ca ELSE cb
        hi == IF ca < cb THEN cb ELSE ca
    IN SubSeq(s, lo + 1, hi)

\* s.substring(a)
substringFrom(s, a) == substring(s, a, Len(s))

\* parseInt on the decimal strings the level descriptors hold
parseInt(s) ==
    CASE s = "0" -> 0 [] s = "1" -> 1 [] s = "2" -> 2 [] s = "3" -> 3
      [] s = "4" -> 4 [] s = "5" -> 5 [] s = "6" -> 6 [] s = "7" -> 7
      [] s = "8" -> 8 [] s = "9" -> 9

(***************************************************************************)
(* The authored levels, each as level.split(':') returns it, the roads     *)
(* field as split(',') returns it and the two maps character by character. *)
(***************************************************************************)
Level0 ==
    <<"5", "3", <<"1">>,
      <<"G", "G", "G", "G", "G", "S", "S", "S", "S", "S", "G", "G", "G", "G", "G">>,
      <<"n", "n", "n", "n", "n", "n", "n", "n", "n", "n", "n", "n", "n", "n", "n">>>>

Level1 ==
    <<"5", "5", <<"2", "3">>,
      <<"G", "G", "G", "G", "G", "W", "S", "W", "S", "W", "S", "S", "S", "S", "S", "S", "S", "S", "S", "S", "G", "G", "G", "G", "G">>,
      <<"n", "n", "n", "n", "n", "n", "n", "n", "n", "n", "n", "n", "n", "n", "n", "n", "g", "n", "n", "n", "n", "n", "n", "n", "n">>>>

Level2 ==
    <<"6", "6", <<"1", "4">>,
      <<"G", "G", "G", "G", "G", "G", "S", "S", "S", "S", "S", "S", "W", "W", "W", "W", "W", "W", "W", "W", "W", "W", "W", "W", "S", "S", "S", "S", "S", "S", "G", "G", "G", "G", "G", "G">>,
      <<"n", "n", "n", "n", "n", "n", "n", "n", "n", "n", "n", "n", "n", "n", "n", "n", "n", "n", "n", "n", "n", "n", "n", "n", "n", "n", "n", "n", "r", "n", "n", "n", "n", "n", "n", "n">>>>

Level3 ==
    <<"5", "6", <<"2", "3", "4">>,
      <<"G", "G", "G", "G", "G", "W", "W", "S", "W", "W", "S", "S", "S", "S", "S", "S", "S", "S", "S", "S", "S", "S", "S", "S", "S", "G", "G", "G", "G", "G">>,
      <<"n", "n", "n", "n", "n", "n", "n", "n", "n", "n", "n", "n", "n", "n", "n", "n", "b", "n", "n", "n", "n", "n", "n", "n", "n", "n", "n", "n", "n", "n">>>>

Level4 ==
    <<"5", "6", <<"1", "3", "4">>,
      <<"G", "G", "G", "G", "G", "S", "S", "S", "S", "S", "S", "S", "W", "S", "S", "S", "S", "S", "S", "S", "S", "S", "S", "S", "S", "G", "G", "G", "G", "G">>,
      <<"n", "n", "n", "n", "n", "n", "n", "n", "n", "n", "n", "g", "n", "b", "n", "n", "n", "n", "n", "n", "n", "n", "n", "n", "n", "n", "n", "n", "n", "n">>>>

Level5 ==
    <<"7", "7", <<"1", "2", "3", "5">>,
      <<"G", "G", "G", "G", "G", "G", "G", "S", "S", "S", "S", "S", "S", "S", "S", "S", "S", "S", "S", "S", "S", "S", "S", "S", "S", "S", "S", "S", "W", "W", "W", "S", "W", "W", "W", "S", "S", "S", "S", "S", "S", "S", "G", "G", "G", "G", "G", "G", "G">>,
      <<"n", "n", "n", "n", "n", "n", "n", "n", "n", "n", "n", "n", "n", "n", "n", "n", "n", "n", "n", "n", "n", "n", "n", "n", "n", "n", "n", "n", "s", "n", "n", "n", "n", "n", "n", "n", "n", "r", "n", "n", "n", "n", "n", "n", "n", "n", "n", "n", "n">>>>

Level6 ==
    <<"5", "5", <<"1", "3">>,
      <<"G", "G", "G", "G", "G", "S", "S", "S", "S", "S", "S", "W", "S", "W", "S", "S", "S", "S", "S", "S", "G", "G", "G", "G", "G">>,
      <<"n", "n", "n", "n", "n", "n", "n", "n", "n", "n", "n", "n", "n", "n", "n", "n", "n", "n", "n", "n", "n", "n", "n", "n", "n">>>>

Level7 ==
    <<"6", "7", <<"1", "5">>,
      <<"G", "G", "G", "G", "G", "G", "S", "S", "S", "S", "S", "S", "W", "S", "W", "S", "W", "S", "S", "W", "S", "W", "S", "W", "W", "S", "W", "S", "W", "S", "S", "S", "S", "S", "S", "S", "G", "G", "G", "G", "G", "G">>,
      <<"n", "n", "n", "n", "n", "n", "n", "n", "n", "n", "n", "n", "n", "n", "n", "n", "n", "n", "n", "n", "n", "n", "n", "n", "n", "r", "n", "n", "n", "n", "n", "n", "n", "n", "n", "n", "n", "n", "n", "n", "n", "n">>>>

Level8 ==
    <<"5", "5", <<"1", "2", "3">>,
      <<"W", "G", "W", "G", "W", "S", "S", "S", "S", "S", "S", "S", "S", "S", "S", "S", "S", "S", "S", "S", "G", "G", "G", "G", "G">>,
      <<"n", "n", "n", "n", "n", "n", "n", "n", "n", "n", "n", "n", "n", "n", "n", "n", "n", "n", "n", "n", "n", "n", "n", "n", "n">>>>

Level9 ==
    <<"8", "7", <<"1", "3", "5">>,
      <<"G", "G", "W", "W", "W", "W", "G", "G", "S", "S", "S", "S", "S", "S", "S", "S", "W", "W", "S", "S", "W", "W", "S", "S", "S", "S", "S", "S", "S", "S", "S", "S", "S", "S", "W", "W", "S", "S", "W", "W", "S", "S", "S", "S", "S", "S", "S", "S", "G", "G", "G", "G", "G", "G", "G", "G">>,
      <<"n", "n", "n", "n", "n", "n", "n", "n", "n", "n", "n", "n", "n", "n", "n", "n", "n", "n", "n", "n", "n", "n", "n", "g", "n", "n", "n", "n", "s", "n", "n", "n", "b", "n", "n", "n", "n", "n", "n", "n", "n", "n", "n", "n", "n", "n", "n", "n", "n", "n", "n", "n", "n", "n", "n", "n">>>>

AllLevels == <<Level0, Level1, Level2, Level3, Level4, Level5, Level6, Level7, Level8, Level9>>


(***************************************************************************)
(* Board                                                                   *)
(***************************************************************************)
\* new Board(level), data being level.split(':')
Board(data) ==
    LET roadsData == data[3]
        base == [width |-> parseInt(data[1]),
                 height |-> parseInt(data[2]),
                 roads |-> [i \in 1..Len(roadsData) |-> parseInt(roadsData[i])],
                 blocks |-> data[4]]
    IN IF Len(data) > 4
       THEN base @@ [items |-> data[5], initialItems |-> data[5]]
       ELSE base @@ [items |-> Undefined, initialItems |-> Undefined]

getBlock(b, row, col) == charAt(b.blocks, row * b.width + col)

\* a setBlock that writes one cell further
setBlockNext(b, row, col, newBlock) ==
    LET index == row * b.width + col + 1 IN
    [b EXCEPT !.blocks = substring(b.blocks, 0, index) \o <<newBlock>>
                           \o substringFrom(b.blocks, index + 1)]

setBlock(b, row, col, newBlock) ==
    LET index == row * b.width + col IN
    [b EXCEPT !.blocks = substring(b.blocks, 0, index) \o <<newBlock>>
                           \o substringFrom(b.blocks, index + 1)]

getItem(b, row, col) ==
    IF b.items = Undefined THEN Item.None ELSE charAt(b.items, row * b.width + col)

\* a setItem on a board whose initialItems is the object that items is
setItemShared(b, row, col, newItem) ==
    LET items0 == IF b.items = Undefined
                  THEN [i \in 1..Len(b.blocks) |-> "n"]
                  ELSE b.items
        index == row * b.width + col
        items1 == substring(items0, 0, index) \o <<newItem>>
                      \o substringFrom(items0, index + 1)
    IN [b EXCEPT !.items = items1, !.initialItems = items1]

setItem(b, row, col, newItem) ==
    LET items0 == IF b.items = Undefined
                  THEN [i \in 1..Len(b.blocks) |-> "n"]
                  ELSE b.items
        index == row * b.width + col
    IN [b EXCEPT !.items = substring(items0, 0, index) \o <<newItem>>
                             \o substringFrom(items0, index + 1)]

removeItem(b, row, col) == setItem(b, row, col, Item.None)

\* resetItems that restores nothing
resetItemsNot(b) == b

resetItems(b) == [b EXCEPT !.items = b.initialItems]

(***************************************************************************)
(* Handlers are functions from a state record to a set of state records.   *)
(***************************************************************************)
Bind(SS, F(_)) == UNION {F(s) : s \in SS}

\* what a handler called and which events it fired, in order
Logged(s, e) == [s EXCEPT !.log = Append(@, e)]

\* Math.floor(q) for a rational q
QFloor(q) == q[1] \div q[2]

\* Game.randomInt(min, max): Math.floor(Math.random() * (max - min + 1)) + min,
\* for every value s.random that Math.random() returns in this exploration
randomInt(s, min, max) ==
    {QFloor(QMul(r, QInt(max - min + 1))) + min : r \in s.random}

(***************************************************************************)
(* Engine: the frame loop and the handlers it gives the game               *)
(***************************************************************************)
\* win.requestAnimationFrame(main)
requestAnimationFrame(s) == [s EXCEPT !.rafPending = @ + 1]

onGameOver(s) ==
    [s EXCEPT !.animate = FALSE, !.gameOverShown = TRUE,
              !.restartHandlers = @ + 1]

onGameRestart(s) == [s EXCEPT !.characterSelector.hasFocus = TRUE]

onGameCompleted(s) ==
    [s EXCEPT !.animate = FALSE, !.congratulationsShown = TRUE,
              !.playHandlers = @ + 1]

onGamePaused(s) == [s EXCEPT !.animate = FALSE]

(***************************************************************************)
(* Game: the event callbacks (no-ops until the engine assigns its own)     *)
(***************************************************************************)
lifeLostCallback(s, n) == Logged(s, <<"lifeLost", n>>)

lifeGainedCallback(s, n) == Logged(s, <<"lifeGained", n>>)

levelClearedCallback(s, n) == Logged(s, <<"levelCleared", n>>)

gameOverCallback(s) ==
    LET t == Logged(s, <<"gameOver">>) IN IF t.wired THEN onGameOver(t) ELSE t

gameRestartCallback(s) ==
    LET t == Logged(s, <<"restart">>) IN IF t.wired THEN onGameRestart(t) ELSE t

gameCompletedCallback(s) ==
    LET t == Logged(s, <<"completed">>) IN IF t.wired THEN onGameCompleted(t) ELSE t

gamePausedCallback(s) ==
    LET t == Logged(s, <<"paused">>) IN IF t.wired THEN onGamePaused(t) ELSE t

(***************************************************************************)
(* Game                                                                    *)
(***************************************************************************)
closeEnoughOrAt(a, b) == ~QLess(<<1, 10>>, QAbs(QAdd(a, <<-b[1], b[2]>>)))

closeEnough(a, b) == QLess(QAbs(QAdd(a, <<-b[1], b[2]>>)), <<1, 10>>)

\* spawnPlayer that puts the player one row below the bottom row
spawnPlayerBelow(s) ==
    {[s EXCEPT !.player.x = c, !.player.y = s.board.height]
        : c \in randomInt(s, 0, s.board.width - 1)}

\* Game.spawnPlayer
spawnPlayer(s) ==
    {[s EXCEPT !.player.x = c, !.player.y = s.board.height - 1]
        : c \in randomInt(s, 0, s.board.width - 1)}

\* new Enemy(game, x, y) followed by the assignment of its speed
Enemy(x, y, speed) == [x |-> x, y |-> y, speed |-> speed]

\* a loop of levelUp that puts each enemy one row below its road
RECURSIVE spawnEnemiesBelow(_, _)
spawnEnemiesBelow(s, i) ==
    IF ~(i < s.numEnemies) THEN {s}
    ELSE Bind({[s EXCEPT !.enemies = Append(@, Enemy(QInt(-1), s.board.roads[i + 1] + 1, QInt(v)))]
                  : v \in randomInt(s, s.minEnemySpeed, s.maxEnemySpeed)},
              LAMBDA t : spawnEnemiesBelow(t, i + 1))

\* the loop of levelUp that fills this.enemies, from index i (0-based) on
RECURSIVE spawnEnemies(_, _)
spawnEnemies(s, i) ==
    IF ~(i < s.numEnemies) THEN {s}
    ELSE Bind({[s EXCEPT !.enemies = Append(@, Enemy(QInt(-1), s.board.roads[i + 1], QInt(v)))]
                  : v \in randomInt(s, s.minEnemySpeed, s.maxEnemySpeed)},
              LAMBDA t : spawnEnemies(t, i + 1))

\* levelUp that takes every level at or past the last for the completion
levelUpAtLeast(s0) ==
    LET s == [Logged(s0, <<"levelUp">>) EXCEPT !.level = @ + 1] IN
    IF s.level >= Len(s.levels) THEN {gameCompletedCallback(s)}
    ELSE LET s1 == [s EXCEPT !.minEnemySpeed = @ + 1,
                             !.maxEnemySpeed = @ + 1,
                             !.board = Board(s.levels[s.level + 1]),
                             !.lives = MaxLives]
             s2 == lifeGainedCallback(s1, s1.lives)
         IN Bind(Bind(spawnPlayer(s2),
                      LAMBDA t : spawnEnemies([t EXCEPT !.enemies = <<>>,
                                                        !.numEnemies = Len(t.board.roads)], 0)),
                 LAMBDA t : {levelClearedCallback(t, t.level)})

\* levelUp that raises the maximal speed by 2
levelUpFaster(s0) ==
    LET s == [Logged(s0, <<"levelUp">>) EXCEPT !.level = @ + 1] IN
    IF s.level = Len(s.levels) THEN {gameCompletedCallback(s)}
    ELSE IF s.level < Len(s.levels) THEN
        LET s1 == [s EXCEPT !.minEnemySpeed = @ + 1,
                            !.maxEnemySpeed = @ + 2,
                            !.board = Board(s.levels[s.level + 1]),
                            !.lives = MaxLives]
            s2 == lifeGainedCallback(s1, s1.lives)
        IN Bind(Bind(spawnPlayer(s2),
                     LAMBDA t : spawnEnemies([t EXCEPT !.enemies = <<>>,
                                                       !.numEnemies = Len(t.board.roads)], 0)),
                LAMBDA t : {levelClearedCallback(t, t.level)})
    ELSE {s}

\* Game.levelUp
levelUp(s0) ==
    LET s == [Logged(s0, <<"levelUp">>) EXCEPT !.level = @ + 1] IN
    IF s.level = Len(s.levels) THEN {gameCompletedCallback(s)}
    ELSE IF s.level < Len(s.levels) THEN
        LET s1 == [s EXCEPT !.minEnemySpeed = @ + 1,
                            !.maxEnemySpeed = @ + 1,
                            !.board = Board(s.levels[s.level + 1]),
                            !.lives = MaxLives]
            s2 == lifeGainedCallback(s1, s1.lives)
        IN Bind(Bind(spawnPlayer(s2),
                     LAMBDA t : spawnEnemies([t EXCEPT !.enemies = <<>>,
                                                       !.numEnemies = Len(t.board.roads)], 0)),
                LAMBDA t : {levelClearedCallback(t, t.level)})
    ELSE {s}

\* the loop of wasPlayerHit, from index i (0-based) on
RECURSIVE hitFrom(_, _)
hitFrom(s, i) ==
    IF ~(i < s.numEnemies) THEN FALSE
    ELSE IF closeEnough(QInt(s.player.x), s.enemies[i + 1].x) /\ s.player.y = s.enemies[i + 1].y
         THEN TRUE
         ELSE hitFrom(s, i + 1)

\* Game.wasPlayerHit
wasPlayerHit(s) == IF s.player.indestructible THEN FALSE ELSE hitFrom(s, 0)

\* isPlayerDrowning that ignores the indestructible flag
isPlayerDrowningAlways(s) == getBlock(s.board, s.player.y, s.player.x) = Block.Water

\* Game.isPlayerDrowning
isPlayerDrowning(s) ==
    ~s.player.indestructible /\ getBlock(s.board, s.player.y, s.player.x) = Block.Water

\* isLevelCleared that takes any tile of the top row
isLevelClearedOnTop(s) == s.player.y = 0

\* Game.isLevelCleared
isLevelCleared(s) ==
    s.player.y = 0 /\ getBlock(s.board, s.player.y, s.player.x) = Block.Grass

\* pause that does not look at paused
pauseAgain(s) == gamePausedCallback([s EXCEPT !.paused = TRUE])

\* Game.pause
pause(s) == IF ~s.paused THEN gamePausedCallback([s EXCEPT !.paused = TRUE]) ELSE s

\* Game.reset
reset(s0) ==
    LET s == [Logged(s0, <<"reset">>) EXCEPT !.lives = @ - 1] IN
    IF s.lives < 0 THEN {gameOverCallback(s)}
    ELSE spawnPlayer([lifeLostCallback(s, s.lives) EXCEPT !.board = resetItems(@)])

\* restart that keeps the speed bounds
restartKeepingSpeeds(s) == levelUp(gameRestartCallback([s EXCEPT !.level = -1]))

\* Game.restart
restart(s) ==
    levelUp(gameRestartCallback([s EXCEPT !.level = -1,
                                          !.minEnemySpeed = InitialMinEnemySpeed,
                                          !.maxEnemySpeed = InitialMaxEnemySpeed]))

\* the kinds helpPlayer chooses among
helpItems == <<Item.Heart, Item.Star, Item.Key, Item.Rock, Item.BlueGem, Item.GreenGem>>

\* the loop of helpPlayer over the bottom row, from column col down to 1
RECURSIVE helpScan(_, _, _)
helpScan(s, col, item) ==
    LET row == s.board.height - 1 IN
    IF ~(col > 0) THEN s
    ELSE IF getItem(s.board, row, col) = Item.None
         THEN lifeLostCallback([s EXCEPT !.board = setItem(@, row, col, item),
                                         !.lives = @ - 1], s.lives - 1)
         ELSE helpScan(s, col - 1, item)

\* a helpPlayer that leaves the player where it is
helpPlayerStaying(s) ==
    IF s.lives >= 1
    THEN {helpScan(s, s.board.width - 1, helpItems[k + 1])
             : k \in randomInt(s, 0, Len(helpItems) - 1)}
    ELSE {s}

\* Game.helpPlayer
helpPlayer(s) ==
    IF s.lives >= 1
    THEN LET s1 == [s EXCEPT !.player.x = 0, !.player.y = s.board.height - 1] IN
         {helpScan(s1, s1.board.width - 1, helpItems[k + 1])
             : k \in randomInt(s, 0, Len(helpItems) - 1)}
    ELSE {s}

(***************************************************************************)
(* Enemy                                                                   *)
(***************************************************************************)
\* an Enemy.prototype.update that wraps only beyond the width of the board
EnemyUpdateBeyond(s0, i, dt) ==
    LET s == Logged(s0, <<"enemy.update", i>>)
        e == s.enemies[i + 1]
        x == QAdd(e.x, QMul(e.speed, dt))
    IN IF QLess(QInt(s.board.width), x)
       THEN {[s EXCEPT !.enemies[i + 1] = Enemy(QInt(-1), s.board.roads[r + 1], QInt(v))]
                : r \in randomInt(s, 0, Len(s.board.roads) - 1),
                  v \in randomInt(s, s.minEnemySpeed, s.maxEnemySpeed)}
       ELSE {[s EXCEPT !.enemies[i + 1].x = x]}

\* Enemy.prototype.update, for this.enemies[i] (0-based)
EnemyUpdate(s0, i, dt) ==
    LET s == Logged(s0, <<"enemy.update", i>>)
        e == s.enemies[i + 1]
        x == QAdd(e.x, QMul(e.speed, dt))
    IN IF ~QLess(x, QInt(s.board.width))
       THEN {[s EXCEPT !.enemies[i + 1] = Enemy(QInt(-1), s.board.roads[r + 1], QInt(v))]
                : r \in randomInt(s, 0, Len(s.board.roads) - 1),
                  v \in randomInt(s, s.minEnemySpeed, s.maxEnemySpeed)}
       ELSE {[s EXCEPT !.enemies[i + 1].x = x]}

(***************************************************************************)
(* The item effects (Game.initializePlayer) and their one-second timers    *)
(***************************************************************************)
\* setTimeout(f, 1000): every timer has the same delay, so they fire in the
\* order in which they were set
setTimeout(s, timer) == [s EXCEPT !.timers = Append(@, timer)]

gainHeart(s) == {lifeGainedCallback([s EXCEPT !.lives = @ + 1], s.lives + 1)}

\* sprite.substring(0, sprite.length - 4) + '-star.png'
starSprite(sprite) == [sprite EXCEPT !.stars = @ + 1]

\* the Star effect without its test of indestructible
gainStarAgain(s) ==
    {setTimeout([s EXCEPT !.player.indestructible = TRUE,
                          !.player.sprite = starSprite(s.player.sprite)],
                [kind |-> Item.Star, sprite |-> s.player.sprite])}

gainStar(s) ==
    IF s.player.indestructible THEN {s}
    ELSE {setTimeout([s EXCEPT !.player.indestructible = TRUE,
                               !.player.sprite = starSprite(s.player.sprite)],
                     [kind |-> Item.Star, sprite |-> s.player.sprite])}

\* a Key effect that advances by two levels
gainKeyTwice(s) == UNION {levelUp(t) : t \in levelUp(s)}

gainKey(s) == levelUp(s)

\* the cells of the board in the order of the two nested loops
cells(b) == [k \in 1..(b.height * b.width) |->
                [row |-> (k - 1) \div b.width, col |-> (k - 1) % b.width]]

\* the loops of the Rock effect, from the k-th cell on: <<board, pos>>
RECURSIVE rockScan(_, _, _)
rockScan(b, pos, k) ==
    IF k > b.height * b.width THEN <<b, pos>>
    ELSE LET c == cells(b)[k] IN
         IF getBlock(b, c.row, c.col) = Block.Water
         THEN rockScan(setBlock(b, c.row, c.col, Block.Stone), Append(pos, c), k + 1)
         ELSE rockScan(b, pos, k + 1)

gainRock(s) ==
    LET r == rockScan(s.board, <<>>, 1) IN
    {setTimeout([s EXCEPT !.board = r[1]],
                [kind |-> Item.Rock, level |-> s.level, pos |-> r[2]])}

gainBlueGem(s) ==
    {setTimeout([s EXCEPT !.enemies = [i \in 1..Len(s.enemies) |->
                                          [s.enemies[i] EXCEPT !.speed = QDiv(@, QInt(3))]]],
                [kind |-> Item.BlueGem, level |-> s.level])}

\* the BlueGem effect of js/app.js: the function given to setTimeout holds no
\* level and does not read `at`, which records the level of the call
gainBlueGemApp(s) ==
    {setTimeout([s EXCEPT !.enemies = [i \in 1..Len(s.enemies) |->
                                          [s.enemies[i] EXCEPT !.speed = QDiv(@, QInt(3))]]],
                [kind |-> Item.BlueGem, at |-> s.level])}

\* a GreenGem effect that reads the speeds after it has set them to 0
gainGreenGemLate(s) ==
    {setTimeout([s EXCEPT !.enemies = [i \in 1..Len(s.enemies) |->
                                          IF i <= s.numEnemies
                                          THEN [s.enemies[i] EXCEPT !.speed = QInt(0)]
                                          ELSE s.enemies[i]]],
                [kind |-> Item.GreenGem, level |-> s.level,
                 speeds |-> [i \in 1..s.numEnemies |-> QInt(0)]])}

gainGreenGem(s) ==
    {setTimeout([s EXCEPT !.enemies = [i \in 1..Len(s.enemies) |->
                                          IF i <= s.numEnemies
                                          THEN [s.enemies[i] EXCEPT !.speed = QInt(0)]
                                          ELSE s.enemies[i]]],
                [kind |-> Item.GreenGem, level |-> s.level,
                 speeds |-> [i \in 1..s.numEnemies |-> s.enemies[i].speed]])}

\* this.gainCallbacks.hasOwnProperty(item)
hasGainCallback(item) ==
    item \in {Item.Heart, Item.Star, Item.Key, Item.Rock, Item.BlueGem,
              Item.GreenGem, Item.OrangeGem}

\* this.gainCallbacks[item](this.game)
gainCallback(s0, item) ==
    LET s == Logged(s0, <<"gain", item>>) IN
    CASE item = Item.Heart -> gainHeart(s)
      [] item = Item.Star -> gainStar(s)
      [] item = Item.Key -> gainKey(s)
      [] item = Item.Rock -> gainRock(s)
      [] item = Item.BlueGem -> IF s.script = "js/app.js" THEN gainBlueGemApp(s)
                                ELSE gainBlueGem(s)
      [] item = Item.GreenGem -> gainGreenGem(s)
      [] OTHER -> {s}

\* a revert of the Rock timer that puts no Water back
rockRevertNot(b, pos, i) == b

\* the revert of the Rock timer, from pos[i] on
RECURSIVE rockRevert(_, _, _)
rockRevert(b, pos, i) ==
    IF i > Len(pos) THEN b
    ELSE rockRevert(setBlock(b, pos[i].row, pos[i].col, Block.Water), pos, i + 1)

\* the function given to setTimeout, when it is called
timerBody(s, t) ==
    CASE t.kind = Item.Star ->
            [s EXCEPT !.player.indestructible = FALSE, !.player.sprite = t.sprite]
      [] t.kind = Item.Rock ->
            IF t.level = s.level
            THEN [s EXCEPT !.board = rockRevert(@, t.pos, 1)]
            ELSE s
      [] t.kind = Item.BlueGem ->
            IF "level" \notin DOMAIN t \/ s.level = t.level
            THEN [s EXCEPT !.enemies = [i \in 1..Len(s.enemies) |->
                                           [s.enemies[i] EXCEPT !.speed = QMul(@, QInt(3))]]]
            ELSE s
      [] t.kind = Item.GreenGem ->
            IF s.level = t.level
            THEN [s EXCEPT !.enemies = [i \in 1..Len(s.enemies) |->
                                           [s.enemies[i] EXCEPT !.speed =
                                               IF i <= Len(t.speeds) THEN t.speeds[i]
                                               ELSE Undefined]]]
            ELSE s

(***************************************************************************)
(* Player                                                                  *)
(***************************************************************************)
\* Player.prototype.update
PlayerUpdate(s0) ==
    LET s == Logged(s0, <<"player.update">>) IN
    IF isLevelCleared(s) THEN levelUp(s) ELSE {s}

\* moveTo that does not look at paused
moveToPaused(s, x, y) ==
    LET s1 == [s EXCEPT !.player.x = x, !.player.y = y]
        item == getItem(s1.board, s1.player.y, s1.player.x)
    IN IF item # Item.None
       THEN Bind(IF hasGainCallback(item) THEN gainCallback(s1, item) ELSE {s1},
                 LAMBDA t : {[t EXCEPT !.board = removeItem(@, y, x)]})
       ELSE {s1}

\* moveTo that leaves the item on the board
moveToLeavingItem(s, x, y) ==
    IF s.paused THEN {s}
    ELSE LET s1 == [s EXCEPT !.player.x = x, !.player.y = y]
             item == getItem(s1.board, s1.player.y, s1.player.x)
         IN IF item # Item.None
            THEN IF hasGainCallback(item) THEN gainCallback(s1, item) ELSE {s1}
            ELSE {s1}

\* moveTo that sets the position of the player after the effect of the item
moveToAfterGain(s, x, y) ==
    IF s.paused THEN {s}
    ELSE LET s1 == [s EXCEPT !.player.x = x, !.player.y = y]
             item == getItem(s1.board, s1.player.y, s1.player.x)
         IN IF item # Item.None
            THEN Bind(IF hasGainCallback(item) THEN gainCallback(s1, item) ELSE {s1},
                      LAMBDA t : {[t EXCEPT !.board = removeItem(@, y, x),
                                            !.player.x = x, !.player.y = y]})
            ELSE {s1}

\* Player.prototype.moveTo
moveTo(s, x, y) ==
    IF s.paused THEN {s}
    ELSE LET s1 == [s EXCEPT !.player.x = x, !.player.y = y]
             item == getItem(s1.board, s1.player.y, s1.player.x)
         IN IF item # Item.None
            THEN Bind(IF hasGainCallback(item) THEN gainCallback(s1, item) ELSE {s1},
                      LAMBDA t : {[t EXCEPT !.board = removeItem(@, y, x)]})
            ELSE {s1}

(***************************************************************************)
(* Engine: one frame                                                       *)
(***************************************************************************)
\* game.enemies.forEach(enemy.update(dt)), from index i (0-based) on
RECURSIVE updateEnemies(_, _, _)
updateEnemies(s, i, dt) ==
    IF ~(i < Len(s.enemies)) THEN {s}
    ELSE Bind(EnemyUpdate(s, i, dt), LAMBDA t : updateEnemies(t, i + 1, dt))

\* an updateEntities that updates the player before the enemies
updateEntitiesPlayerFirst(s, dt) ==
    Bind(PlayerUpdate(s), LAMBDA t : updateEnemies(t, 0, dt))

updateEntities(s, dt) == Bind(updateEnemies(s, 0, dt), PlayerUpdate)

checkCollisions(s0) ==
    LET s == Logged(s0, <<"checkCollisions">>) IN
    IF wasPlayerHit(s) \/ isPlayerDrowning(s) THEN reset(s) ELSE {s}

update(s, dt) == Bind(updateEntities(s, dt), checkCollisions)

\* main: update(dt), render() (which draws and changes no state), and the
\* request of the next frame
main(s, dt) ==
    Bind(update(s, dt), LAMBDA t : {IF t.animate THEN requestAnimationFrame(t) ELSE t})

\* lastTime = Date.now(); main(): the frame that main runs at once has dt = 0
mainNow(s) == main(s, QInt(0))

onGameResumed(s) == mainNow([s EXCEPT !.animate = TRUE])

gameResumedCallback(s) ==
    LET t == Logged(s, <<"resumed">>) IN IF t.wired THEN onGameResumed(t) ELSE {t}

\* Game.resume
resume(s) == IF s.paused THEN gameResumedCallback([s EXCEPT !.paused = FALSE]) ELSE {s}

\* init: restart(), lastTime = Date.now(), main()
init(s) == Bind(restart(s), mainNow)

\* the click handler onGameOver puts on #restart
restartClicked(s) ==
    Bind(init([s EXCEPT !.animate = TRUE]),
         LAMBDA t : {[t EXCEPT !.gameOverShown = FALSE]})

\* the click handler onGameCompleted puts on #play
playClicked(s) ==
    Bind(init([s EXCEPT !.animate = TRUE]),
         LAMBDA t : {[t EXCEPT !.congratulationsShown = FALSE]})

\* a click runs every handler the button has, in the order they were added
RECURSIVE runHandlers(_, _, _)
runHandlers(s, n, button) ==
    IF n = 0 THEN {s}
    ELSE Bind(IF button = "restart" THEN restartClicked(s) ELSE playClicked(s),
              LAMBDA t : runHandlers(t, n - 1, button))

\* handleInput whose 'left' does not look at the edge of the board
PlayerHandleInputOverEdge(s, key) ==
    CASE key = "left" -> moveTo(s, s.player.x - 1, s.player.y)
      [] key = "up" ->
            IF s.player.y > 0 THEN moveTo(s, s.player.x, s.player.y - 1) ELSE {s}
      [] key = "right" ->
            IF s.player.x < s.board.width - 1 THEN moveTo(s, s.player.x + 1, s.player.y) ELSE {s}
      [] key = "down" ->
            IF s.player.y < s.board.height - 1 THEN moveTo(s, s.player.x, s.player.y + 1) ELSE {s}
      [] key = "help" -> helpPlayer(s)
      [] key = "pause" -> IF ~s.paused THEN {pause(s)} ELSE resume(s)
      [] key = "quit" ->
            Bind(resume(s), LAMBDA t : restart([t EXCEPT !.characterSelector.hasFocus = TRUE]))
      [] OTHER -> {s}

\* Player.prototype.handleInput
\* a handleInput whose 'quit' does not resume the game first
PlayerHandleInputQuitPaused(s, key) ==
    CASE key = "left" ->
            IF s.player.x > 0 THEN moveTo(s, s.player.x - 1, s.player.y) ELSE {s}
      [] key = "up" ->
            IF s.player.y > 0 THEN moveTo(s, s.player.x, s.player.y - 1) ELSE {s}
      [] key = "right" ->
            IF s.player.x < s.board.width - 1 THEN moveTo(s, s.player.x + 1, s.player.y) ELSE {s}
      [] key = "down" ->
            IF s.player.y < s.board.height - 1 THEN moveTo(s, s.player.x, s.player.y + 1) ELSE {s}
      [] key = "help" -> helpPlayer(s)
      [] key = "pause" -> IF ~s.paused THEN {pause(s)} ELSE resume(s)
      [] key = "quit" -> restart([s EXCEPT !.characterSelector.hasFocus = TRUE])
      [] OTHER -> {s}

PlayerHandleInput(s, key) ==
    CASE key = "left" ->
            IF s.player.x > 0 THEN moveTo(s, s.player.x - 1, s.player.y) ELSE {s}
      [] key = "up" ->
            IF s.player.y > 0 THEN moveTo(s, s.player.x, s.player.y - 1) ELSE {s}
      [] key = "right" ->
            IF s.player.x < s.board.width - 1 THEN moveTo(s, s.player.x + 1, s.player.y) ELSE {s}
      [] key = "down" ->
            IF s.player.y < s.board.height - 1 THEN moveTo(s, s.player.x, s.player.y + 1) ELSE {s}
      [] key = "help" -> helpPlayer(s)
      [] key = "pause" -> IF ~s.paused THEN {pause(s)} ELSE resume(s)
      [] key = "quit" ->
            Bind(resume(s), LAMBDA t : restart([t EXCEPT !.characterSelector.hasFocus = TRUE]))
      [] OTHER -> {s}

(***************************************************************************)
(* CharacterSelector                                                       *)
(***************************************************************************)
\* the characters initializeCharacterSelector lists
characters == <<"boy", "cat-girl", "horn-girl", "pink-girl", "princess-girl">>

\* 'images/char-<name>.png'
characterSprite(name) == [name |-> name, stars |-> 0]

onCharacterSelected(s, character) ==
    [s EXCEPT !.player.sprite = characterSprite(character),
              !.characterSelector.hasFocus = FALSE]

\* CharacterSelector.prototype.handleInput
SelectorHandleInput(s, key) ==
    LET cs == s.characterSelector IN
    CASE key = "left" ->
            IF cs.position > 0 THEN [s EXCEPT !.characterSelector.position = @ - 1] ELSE s
      [] key = "right" ->
            IF cs.position < Len(characters) - 1
            THEN [s EXCEPT !.characterSelector.position = @ + 1] ELSE s
      [] key = "enter" ->
            IF cs.position >= 0 /\ cs.position <= Len(characters) - 1
            THEN onCharacterSelected(s, characters[cs.position + 1]) ELSE s
      [] OTHER -> s

\* the keyup listener the Game constructor adds
keyup(s, key) ==
    IF s.characterSelector.hasFocus THEN {SelectorHandleInput(s, key)}
    ELSE PlayerHandleInput(s, key)

(***************************************************************************)
(* The state                                                               *)
(***************************************************************************)
VARIABLES
    levels,             \* Game.levels: the levels the game is loaded with
    random,             \* the values Math.random() returns in this exploration
    script,             \* the revision of the game script the page runs
    level, lives, paused, minEnemySpeed, maxEnemySpeed, numEnemies,  \* Game
    board,              \* Game.board: width, height, roads, blocks, items, initialItems
    player,             \* Game.player: x, y, indestructible, sprite
    enemies,            \* Game.enemies: sequence of x, y, speed
    characterSelector,  \* Game.characterSelector: hasFocus, position
    timers,             \* the functions given to setTimeout and not called yet
    animate,            \* Engine: animate
    rafPending,         \* how many requestAnimationFrame(main) calls await their frame
    restartHandlers,    \* how many click handlers #restart has
    playHandlers,       \* how many click handlers #play has
    gameOverShown,      \* whether #game-over is displayed
    congratulationsShown, \* whether #congratulations is displayed
    ready,              \* whether Resources.onReady has called init
    log,                \* what the last handler called and fired
    completedFired      \* how often "completed" fired since the session began

vars == <<levels, random, script, level, lives, paused, minEnemySpeed, maxEnemySpeed, numEnemies, board, player,
          enemies, characterSelector, timers, animate, rafPending, restartHandlers,
          playHandlers, gameOverShown, congratulationsShown, ready, log, completedFired>>

\* the state as the record the handlers work on, with an empty log
State ==
    [levels |-> levels, random |-> random, script |-> script, level |-> level, lives |-> lives, paused |-> paused,
     minEnemySpeed |-> minEnemySpeed, maxEnemySpeed |-> maxEnemySpeed,
     numEnemies |-> numEnemies, board |-> board, player |-> player, enemies |-> enemies,
     characterSelector |-> characterSelector, timers |-> timers, animate |-> animate,
     rafPending |-> rafPending, restartHandlers |-> restartHandlers,
     playHandlers |-> playHandlers, gameOverShown |-> gameOverShown,
     congratulationsShown |-> congratulationsShown, wired |-> TRUE, log |-> <<>>]

\* "completed" events since the last "restart", given the count before the log
RECURSIVE completedAfter(_, _, _)
completedAfter(n, lg, i) ==
    IF i > Len(lg) THEN n
    ELSE completedAfter(IF lg[i] = <<"restart">> THEN 0
                        ELSE IF lg[i] = <<"completed">> THEN n + 1 ELSE n, lg, i + 1)

\* the exploration stays within the bounds
Bounded(n) ==
    /\ n.level <= Len(n.levels) + MaxOver
    /\ Len(n.timers) <= MaxTimers
    /\ n.rafPending <= MaxRaf
    /\ n.restartHandlers <= MaxHandlers
    /\ n.playHandlers <= MaxHandlers

\* the calls a log keeps in the state: those of levelUp and reset, and the events
Kept(e) ==
    e[1] \notin {"ready", "frame", "keyup", "timeout", "click", "gain",
                 "enemy.update", "player.update", "checkCollisions"}

\* the next state is the record n
Install(n) ==
    /\ Bounded(n)
    /\ UNCHANGED <<levels, random, script>>
    /\ level' = n.level
    /\ lives' = n.lives
    /\ paused' = n.paused
    /\ minEnemySpeed' = n.minEnemySpeed
    /\ maxEnemySpeed' = n.maxEnemySpeed
    /\ numEnemies' = n.numEnemies
    /\ board' = n.board
    /\ player' = n.player
    /\ enemies' = n.enemies
    /\ characterSelector' = n.characterSelector
    /\ timers' = n.timers
    /\ animate' = n.animate
    /\ rafPending' = n.rafPending
    /\ restartHandlers' = n.restartHandlers
    /\ playHandlers' = n.playHandlers
    /\ gameOverShown' = n.gameOverShown
    /\ congratulationsShown' = n.congratulationsShown
    /\ log' = SelectSeq(n.log, Kept)
    /\ completedFired' = completedAfter(completedFired, n.log, 1)

(***************************************************************************)
(* Construction                                                            *)
(***************************************************************************)
\* this.board = null
NullBoard ==
    [width |-> 0, height |-> 0, roads |-> <<>>, blocks |-> <<>>,
     items |-> Undefined, initialItems |-> Undefined]

\* the fields the Game constructor and the Engine set before levelUp runs,
\* for a game loaded with the levels lv
Fresh(lv, rnd) ==
    [levels |-> lv, random |-> rnd, script |-> "part_000", level |-> -1, lives |-> MaxLives, paused |-> FALSE,
     minEnemySpeed |-> InitialMinEnemySpeed, maxEnemySpeed |-> InitialMaxEnemySpeed,
     numEnemies |-> 0, board |-> NullBoard,
     player |-> [x |-> 0, y |-> 0, indestructible |-> FALSE,
                 sprite |-> characterSprite("boy")],
     enemies |-> <<>>,
     characterSelector |-> [hasFocus |-> TRUE, position |-> 0],
     timers |-> <<>>, animate |-> TRUE, rafPending |-> 0, restartHandlers |-> 0,
     playHandlers |-> 0, gameOverShown |-> FALSE, congratulationsShown |-> FALSE,
     wired |-> FALSE, log |-> <<>>]

\* new Game(): the constructor ends with levelUp(), its callbacks still no-ops
Constructed(lv, rnd) == levelUp(Fresh(lv, rnd))

\* InitialMaxEnemySpeed in js/app.js: initializeEnemies sets maxEnemySpeed to 4
AppMaxEnemySpeed == 4

\* the fields the Game constructor of js/app.js sets before levelUp runs
FreshApp(lv, rnd) ==
    [Fresh(lv, rnd) EXCEPT !.script = "js/app.js", !.maxEnemySpeed = AppMaxEnemySpeed]

\* new Game() in js/app.js
ConstructedApp(lv, rnd) == levelUp(FreshApp(lv, rnd))

\* the state is the record n, no handler having run yet
Start(n, rdy) ==
    /\ levels = n.levels
    /\ random = n.random
    /\ script = n.script
    /\ level = n.level
    /\ lives = n.lives
    /\ paused = n.paused
    /\ minEnemySpeed = n.minEnemySpeed
    /\ maxEnemySpeed = n.maxEnemySpeed
    /\ numEnemies = n.numEnemies
    /\ board = n.board
    /\ player = n.player
    /\ enemies = n.enemies
    /\ characterSelector = n.characterSelector
    /\ timers = n.timers
    /\ animate = n.animate
    /\ rafPending = n.rafPending
    /\ restartHandlers = n.restartHandlers
    /\ playHandlers = n.playHandlers
    /\ gameOverShown = n.gameOverShown
    /\ congratulationsShown = n.congratulationsShown
    /\ ready = rdy
    /\ log = <<>>
    /\ completedFired = 0

(***************************************************************************)
(* Actions: one per callback the browser runs.  The log of a handler       *)
(* starts with the callback and its input.                                 *)
(***************************************************************************)
Called(tag) == [State EXCEPT !.log = <<tag>>]

\* Resources.onReady(init)
Ready ==
    /\ ~ready
    /\ ready' = TRUE
    /\ \E n \in init(Called(<<"ready">>)) : Install(n)

\* a frame: the browser calls main, dt seconds after the last frame
Frame(dt) ==
    /\ rafPending > 0
    /\ UNCHANGED ready
    /\ \E n \in main([Called(<<"frame">>) EXCEPT !.rafPending = @ - 1], dt) : Install(n)

\* a key is released
KeyUp(key) ==
    /\ UNCHANGED ready
    /\ \E n \in keyup(Called(<<"keyup", key>>), key) : Install(n)

\* the oldest timer fires
TimerFire ==
    /\ timers # <<>>
    /\ UNCHANGED ready
    /\ Install(timerBody([Called(<<"timeout", Head(timers).kind>>) EXCEPT !.timers = Tail(@)],
                         Head(timers)))

\* a click on #restart, on the game-over screen
ClickRestart ==
    /\ gameOverShown
    /\ UNCHANGED ready
    /\ \E n \in runHandlers(Called(<<"click", "restart">>), restartHandlers, "restart") :
          Install(n)

\* a click on #play, on the congratulations screen
ClickPlay ==
    /\ congratulationsShown
    /\ UNCHANGED ready
    /\ \E n \in runHandlers(Called(<<"click", "play">>), playHandlers, "play") : Install(n)

\* the player's keys, pressed while the game has the focus
Play(keys) == \E key \in keys : ~characterSelector.hasFocus /\ KeyUp(key)

\* the selector's keys, pressed while the character selector has the focus
Select(keys) == \E key \in keys : characterSelector.hasFocus /\ KeyUp(key)

\* the keys that move the player
Moves == {"left", "up", "right", "down"}

\* how many items lie on the board that its level was not loaded with
helped(b) ==
    IF b.items = Undefined THEN 0
    ELSE Cardinality({i \in 1..Len(b.items) :
                         /\ b.items[i] # Item.None
                         /\ (i > Len(b.initialItems) \/ b.initialItems[i] # b.items[i])})

\* the help key, pressed while fewer than MaxHelps helped items lie on the board
Help == helped(board) < MaxHelps /\ Play({"help"})

\* a game loaded with the levels lv is constructed
Loaded(lv, rnd) == \E n \in Constructed(lv, rnd) : Start(n, FALSE)

\* the page has loaded js/app.js
LoadedApp(lv, rnd) == \E n \in ConstructedApp(lv, rnd) : Start(n, FALSE)

(***************************************************************************)
(* The session: a game loaded with the first NumLevels authored levels,    *)
(* from its construction on; Math.random() returns 1/4, a frame lasts one  *)
(* second, the player moves, quits and asks for help (a Star).             *)
(***************************************************************************)
Init == Loaded(SubSeq(AllLevels, 1, NumLevels), {<<1, 4>>})

Next ==
    \/ Ready
    \/ Frame(QInt(1))
    \/ Play(Moves \cup {"quit", "other"})
    \/ Help
    \/ Select({"enter"})
    \/ TimerFire
    \/ ClickRestart
    \/ ClickPlay

Spec == Init /\ [][Next]_vars

(***************************************************************************)
(* Pausing: a game loaded with the first level, the player moving and      *)
(* pausing.                                                                *)
(***************************************************************************)
InitPause == Loaded(<<Level0>>, {<<1, 4>>})

NextPause ==
    \/ Ready
    \/ Frame(QInt(1))
    \/ Play(Moves \cup {"pause"})
    \/ Select({"enter"})
    \/ ClickRestart
    \/ ClickPlay

SpecPause == InitPause /\ [][NextPause]_vars

(***************************************************************************)
(* Collisions: a game loaded with the first level, at twenty frames a      *)
(* second, the player moving and asking for help (a Star).                 *)
(***************************************************************************)
InitHit == Loaded(<<Level0>>, {<<1, 4>>})

NextHit ==
    \/ Ready
    \/ Frame(<<1, 20>>)
    \/ Play(Moves)
    \/ Help
    \/ Select({"enter"})
    \/ TimerFire
    \/ ClickRestart
    \/ ClickPlay

SpecHit == InitHit /\ [][NextHit]_vars

(***************************************************************************)
(* The top row: a game loaded with the authored level whose top row holds  *)
(* Water, the player moving and asking for help (a Rock, which turns the   *)
(* Water of the board into Stone until its timer fires).                   *)
(***************************************************************************)
InitTop == Loaded(<<Level8>>, {<<1, 2>>})

NextTop ==
    \/ Ready
    \/ Frame(QInt(1))
    \/ Play(Moves)
    \/ Help
    \/ Select({"enter"})
    \/ TimerFire
    \/ ClickPlay

SpecTop == InitTop /\ [][NextTop]_vars

(***************************************************************************)
(* Pausing next to an item: a game loaded with the first level, the player *)
(* moving, pausing and asking for help (a Heart); Math.random() returns 0. *)
(***************************************************************************)
InitItem == Loaded(<<Level0>>, {<<0, 1>>})

NextItem ==
    \/ Ready
    \/ Frame(QInt(1))
    \/ Play(Moves \cup {"pause"})
    \/ Help
    \/ Select({"enter"})

SpecItem == InitItem /\ [][NextItem]_vars

(***************************************************************************)
(* Levels: a game loaded with the first NumLevels authored levels, the     *)
(* player moving and quitting, the timers of the items of the levels       *)
(* firing.                                                                 *)
(***************************************************************************)
InitLevels == Loaded(SubSeq(AllLevels, 1, NumLevels), {<<1, 4>>})

NextLevels ==
    \/ Ready
    \/ Frame(QInt(1))
    \/ Play(Moves \cup {"quit"})
    \/ Select({"enter"})
    \/ TimerFire

SpecLevels == InitLevels /\ [][NextLevels]_vars

(***************************************************************************)
(* Lives: a game loaded with the authored level that has Water, two roads  *)
(* and a GreenGem, the player moving and asking for help (a Star).         *)
(***************************************************************************)
InitLives == Loaded(<<Level1>>, {<<1, 4>>})

NextLives ==
    \/ Ready
    \/ Frame(QInt(1))
    \/ Play(Moves)
    \/ Help
    \/ Select({"enter"})
    \/ TimerFire

SpecLives == InitLives /\ [][NextLives]_vars

(***************************************************************************)
(* Items: a game loaded with the first level; Math.random() returns one of *)
(* HelpSeeds, the same in every call of a session, so that the help key    *)
(* places a Heart, a Star, a Key, a Rock, a BlueGem or a GreenGem.         *)
(***************************************************************************)
HelpSeeds == {<<0, 1>>, <<1, 4>>, <<1, 3>>, <<1, 2>>, <<2, 3>>, <<5, 6>>}

InitGain == \E r \in HelpSeeds : Loaded(<<Level0>>, {r})

NextGain ==
    \/ Ready
    \/ Frame(QInt(1))
    \/ Play(Moves)
    \/ Help
    \/ Select({"enter"})
    \/ TimerFire

SpecGain == InitGain /\ [][NextGain]_vars

(***************************************************************************)
(* Keys: a game loaded with the first two levels, the player moving and    *)
(* asking for help (a Key); Math.random() returns 1/3.                     *)
(***************************************************************************)
InitKey == Loaded(<<Level0, Level1>>, {<<1, 3>>})

NextKey ==
    \/ Ready
    \/ Frame(QInt(1))
    \/ Play(Moves)
    \/ Help
    \/ Select({"enter"})
    \/ TimerFire

SpecKey == InitKey /\ [][NextKey]_vars

(***************************************************************************)
(* js/app.js: the page runs js/app.js on the first two levels, the player  *)
(* moving and asking for help (a BlueGem); Math.random() returns 2/3.      *)
(***************************************************************************)
InitApp == LoadedApp(<<Level0, Level1>>, {<<2, 3>>})

NextApp ==
    \/ Ready
    \/ Frame(QInt(1))
    \/ Play(Moves)
    \/ Help
    \/ Select({"enter"})
    \/ TimerFire

SpecApp == InitApp /\ [][NextApp]_vars

(***************************************************************************)
(* Quitting: a game loaded with the first level, the player moving, asking *)
(* for help (a BlueGem) and quitting; Math.random() returns 2/3.           *)
(***************************************************************************)
InitQuit == Loaded(<<Level0>>, {<<2, 3>>})

NextQuit ==
    \/ Ready
    \/ Frame(QInt(1))
    \/ Play(Moves \cup {"quit"})
    \/ Help
    \/ Select({"enter"})
    \/ TimerFire

SpecQuit == InitQuit /\ [][NextQuit]_vars

(***************************************************************************)
(* A narrow board: a game loaded with one level of two columns, whose      *)
(* bottom row has a single cell right of column 0, so that the help key    *)
(* can fill it while lives remain (on the levels of initializeLevels, of   *)
(* five columns or more, each of the four items needed costs one of three  *)
(* lives); Math.random() returns 1/2 (a Rock).                             *)
(***************************************************************************)
LevelNarrow ==
    <<"2", "3", <<"1">>,
      <<"G", "G", "S", "S", "G", "G">>,
      <<"n", "n", "n", "n", "n", "n">>>>

InitNarrow == Loaded(<<LevelNarrow>>, {<<1, 2>>})

NextNarrow ==
    \/ Ready
    \/ Frame(QInt(1))
    \/ Play(Moves \cup {"help"})
    \/ Select({"enter"})
    \/ TimerFire

SpecNarrow == InitNarrow /\ [][NextNarrow]_vars

(***************************************************************************)
(* Boards: a game loaded with one level, either the second level of        *)
(* initializeLevels or a level whose descriptor has no item layer, the     *)
(* player moving and asking for help (a Rock); Math.random() returns 1/2   *)
(* and the frames last no time, so that the enemies stay where they are.   *)
(***************************************************************************)
LevelBare ==
    <<"3", "3", <<"1">>,
      <<"G", "W", "G", "S", "S", "S", "G", "G", "G">>>>

InitBoard == \E lv \in {LevelBare, Level1} : Loaded(<<lv>>, {<<1, 2>>})

NextBoard ==
    \/ Ready
    \/ Frame(QInt(0))
    \/ Play(Moves)
    \/ Help
    \/ Select({"enter"})
    \/ TimerFire

SpecBoard == InitBoard /\ [][NextBoard]_vars

(***************************************************************************)
(* A narrower next level: a game loaded with the third and fourth levels   *)
(* of initializeLevels, of six and of five columns, the player moving and  *)
(* asking for help (a Key); Math.random() returns 1/3 and the frames last  *)
(* no time.                                                                *)
(***************************************************************************)
InitGrow == Loaded(<<Level2, Level3>>, {<<1, 3>>})

NextGrow ==
    \/ Ready
    \/ Frame(QInt(0))
    \/ Play(Moves)
    \/ Help
    \/ Select({"enter"})
    \/ TimerFire

SpecGrow == InitGrow /\ [][NextGrow]_vars

(***************************************************************************)
(* Leaving: a game loaded with the first level, the player moving, pausing *)
(* and quitting; Math.random() returns 1/4.                                *)
(***************************************************************************)
InitLeave == Loaded(<<Level0>>, {<<1, 4>>})

NextLeave ==
    \/ Ready
    \/ Frame(QInt(1))
    \/ Play(Moves \cup {"pause", "quit"})
    \/ Select({"enter"})

SpecLeave == InitLeave /\ [][NextLeave]_vars

(***************************************************************************)
(* Characters: a game loaded with the first level, the player moving,      *)
(* asking for help (a Star) and quitting, the selector moved to the right  *)
(* before a character is chosen; Math.random() returns 1/4.                *)
(***************************************************************************)
InitIdentity == Loaded(<<Level0>>, {<<1, 4>>})

NextIdentity ==
    \/ Ready
    \/ Frame(QInt(1))
    \/ Play(Moves \cup {"quit"})
    \/ Help
    \/ Select({"right", "enter"})
    \/ TimerFire

SpecIdentity == InitIdentity /\ [][NextIdentity]_vars

(***************************************************************************)
(* Stars: a game loaded with the first level, the player moving and asking *)
(* for help (a Star); Math.random() returns 1/4.  The browser runs every   *)
(* function given to setTimeout once its delay has passed: a pending timer *)
(* fires eventually.                                                       *)
(***************************************************************************)
InitStar == Loaded(<<Level0>>, {<<1, 4>>})

NextStar ==
    \/ Ready
    \/ Frame(QInt(1))
    \/ Play(Moves)
    \/ Help
    \/ Select({"enter"})
    \/ TimerFire

SpecStar == InitStar /\ [][NextStar]_vars /\ WF_vars(TimerFire)

(***************************************************************************)
(* The bottom row: a game loaded with all the levels of initializeLevels,  *)
(* the player moving right, stepping up from the bottom row and asking for *)
(* help (a Key, which takes it to the next level); Math.random() returns   *)
(* 1/3.                                                                    *)
(***************************************************************************)
InitBottom == Loaded(AllLevels, {<<1, 3>>})

\* the up key, pressed while the player stands on the bottom row
StepUp == player.y = board.height - 1 /\ Play({"up"})

NextBottom ==
    \/ Ready
    \/ Frame(QInt(1))
    \/ Play({"right"})
    \/ StepUp
    \/ Help
    \/ Select({"enter"})

SpecBottom == InitBottom /\ [][NextBottom]_vars

(***************************************************************************)
(* What the logs of the calls say.                                         *)
(***************************************************************************)
Has(lg, e) == \E i \in 1..Len(lg) : lg[i] = e

Count(lg, e) == Cardinality({i \in 1..Len(lg) : lg[i] = e})

Tagged(lg, tag) == {i \in 1..Len(lg) : lg[i][1] = tag}

First(lg, e) == CHOOSE i \in 1..Len(lg) : lg[i] = e /\ \A j \in 1..(i - 1) : lg[j] # e

\* the values Math.random() is given in the calls the properties quantify over
Samples == {<<0, 1>>, <<1, 4>>, <<1, 2>>, <<7, 8>>}

Sampled(s) == [s EXCEPT !.random = Samples]

\* the state in which restart() calls levelUp()
Restarting(s) ==
    gameRestartCallback([s EXCEPT !.level = -1,
                                  !.minEnemySpeed = InitialMinEnemySpeed,
                                  !.maxEnemySpeed = InitialMaxEnemySpeed])

(***************************************************************************)
(* The properties                                                          *)
(***************************************************************************)
\* the descriptor of the level a game at level lv plays on
Descriptor(lv) == levels[lv + 1]

\* the board b is the one the descriptor d describes, as authored
Authored(b, d) ==
    /\ b.width = parseInt(d[1])
    /\ b.height = parseInt(d[2])
    /\ b.roads = [i \in 1..Len(d[3]) |-> parseInt(d[3][i])]
    /\ b.blocks = d[4]
    /\ b.items = d[5]

\* C1: a game that has made levels.length calls of levelUp() since it was
\* constructed or restarted has fired "completed" exactly once, a game that
\* has made fewer has not fired it, and a further call of levelUp() installs
\* no board, rebuilds no enemy and fires neither "completed" nor "level
\* cleared".
C1_CompletedOnce ==
    /\ completedFired = (IF level >= Len(levels) THEN 1 ELSE 0)
    /\ level >= Len(levels) =>
          \A t \in levelUp(State) :
              /\ t.level = level + 1
              /\ t.board = board
              /\ t.enemies = enemies
              /\ ~Has(t.log, <<"completed">>)
              /\ Tagged(t.log, "levelCleared") = {}

\* a levelUp() was called after the one that completed the game
C1_Witness ==
    /\ level > Len(levels)
    /\ completedFired = 1
    /\ Has(log, <<"levelUp">>)

\* C2: a call of levelUp() that reaches a level L below levels.length leaves
\* the board of descriptor L as authored, lives at maxLives, the player on
\* the bottom row at an integer column of the board, one enemy per road with
\* x = -1, on its road, at an integer speed within the speed bounds, and
\* fires "level cleared" once, with L.
C2_LevelUpInstalls ==
    \A s \in {Sampled(State), Restarting(Sampled(State))} :
        \A t \in levelUp(s) :
            t.level < Len(levels) =>
                /\ t.level = s.level + 1
                /\ Authored(t.board, Descriptor(t.level))
                /\ t.lives = MaxLives
                /\ t.player.y = t.board.height - 1
                /\ t.player.x \in 0..(t.board.width - 1)
                /\ Len(t.enemies) = Len(t.board.roads)
                /\ \A i \in 1..Len(t.enemies) :
                      /\ t.enemies[i].x = QInt(-1)
                      /\ t.enemies[i].y = t.board.roads[i]
                      /\ QIsInt(t.enemies[i].speed)
                      /\ ~QLess(t.enemies[i].speed, QInt(t.minEnemySpeed))
                      /\ ~QLess(QInt(t.maxEnemySpeed), t.enemies[i].speed)
                /\ Count(t.log, <<"levelCleared", t.level>>) = 1
                /\ Cardinality(Tagged(t.log, "levelCleared")) = 1

\* the second level was installed by a levelUp() from the first
C2_Witness ==
    /\ level = 1
    /\ Has(log, <<"levelUp">>)
    /\ Has(log, <<"levelCleared", 1>>)
    /\ Authored(board, Descriptor(1))
    /\ Len(enemies) = 2

\* the frames the properties quantify over last no time or one second
Durations == {QInt(0), QInt(1)}

\* C3: in a frame that finds the player on row 0 on a Grass tile, the player
\* update calls levelUp(), before the collision check of that frame; in a
\* frame that finds the player on another row, or on row 0 on Stone or
\* Water, it does not.
C3_LevelUpInFrame ==
    \A dt \in Durations :
        \A t \in update(State, dt) :
            IF player.y = 0 /\ getBlock(board, 0, player.x) = Block.Grass
            THEN /\ Count(t.log, <<"levelUp">>) = 1
                 /\ First(t.log, <<"player.update">>) < First(t.log, <<"levelUp">>)
                 /\ First(t.log, <<"levelUp">>) < First(t.log, <<"checkCollisions">>)
            ELSE ~Has(t.log, <<"levelUp">>)

\* a frame has called levelUp(), which completed the game of one level
C3_Witness ==
    /\ Has(log, <<"levelUp">>)
    /\ ~Has(log, <<"restart">>)
    /\ Has(log, <<"completed">>)
    /\ player.y = 0
    /\ getBlock(board, 0, player.x) = Block.Grass

\* C4: wasPlayerHit() is true exactly when the player is not indestructible
\* and some enemy is on the player's row with |enemy.x - player.x| < 0.1.
C4_WasPlayerHit ==
    wasPlayerHit(State) <=>
        /\ ~player.indestructible
        /\ \E i \in 1..Len(enemies) :
              /\ enemies[i].y = player.y
              /\ 10 * Abs(enemies[i].x[1] - player.x * enemies[i].x[2]) < enemies[i].x[2]

\* an enemy within 0.1 of the player, not at the player's column, hits
C4_Witness ==
    /\ wasPlayerHit(State)
    /\ \A i \in 1..Len(enemies) : enemies[i].x # QInt(player.x)

\* C5: while the player is indestructible, the collision check of a frame
\* does not call reset() and the frame takes no life, whether an enemy
\* overlaps the player or the player stands on Water.
C5_IndestructibleNoReset ==
    player.indestructible =>
        \A dt \in Durations :
            \A t \in update(State, dt) :
                /\ ~Has(t.log, <<"reset">>)
                /\ Tagged(t.log, "lifeLost") = {}
                /\ Tagged(t.log, "gameOver") = {}
                /\ (t.lives = lives \/ Has(t.log, <<"levelUp">>))

\* the indestructible player stands on Water while frames run
C5_Witness ==
    /\ player.indestructible
    /\ getBlock(board, player.y, player.x) = Block.Water
    /\ rafPending > 0
    /\ lives < MaxLives

\* the level whose board a game at level lv has: the last one once completed
BoardLevel(lv) == IF lv < Len(levels) THEN lv ELSE Len(levels) - 1

\* C6: reset() called with lives = n >= 1 leaves lives at n - 1, fires "life
\* lost" once, with n - 1, and no "game over", leaves the items of the board
\* as its level was loaded with, and the player on the bottom row at a
\* column of the board.
C6_ResetTakesALife ==
    lives >= 1 =>
        \A t \in reset(Sampled(State)) :
            /\ t.lives = lives - 1
            /\ Count(t.log, <<"lifeLost", lives - 1>>) = 1
            /\ Cardinality(Tagged(t.log, "lifeLost")) = 1
            /\ Tagged(t.log, "gameOver") = {}
            /\ t.board.items = Descriptor(BoardLevel(level))[5]
            /\ \A row \in 0..(board.height - 1), col \in 0..(board.width - 1) :
                  getItem(t.board, row, col) =
                      getItem(Board(Descriptor(BoardLevel(level))), row, col)
            /\ t.player.y = t.board.height - 1
            /\ t.player.x \in 0..(t.board.width - 1)

\* a reset() has taken a life after a help, on the level that has an item
C6_Witness ==
    /\ Has(log, <<"reset">>)
    /\ Has(log, <<"lifeLost", lives>>)
    /\ lives \in 0..(MaxLives - 2)
    /\ board.items = Descriptor(level)[5]
    /\ \E i \in 1..Len(board.items) : board.items[i] # Item.None
    /\ player.y = board.height - 1

\* C7: the reset() called with lives = 0 fires "game over", and from then
\* until restart() is called no step fires "game over" or "life lost" or
\* changes lives, level, the board or the position of the player.
C7_GameOverTerminal ==
    [][/\ (lives = 0 /\ lives' < 0) => Count(log', <<"gameOver">>) = 1
       /\ (lives < 0 /\ ~Has(log', <<"restart">>)) =>
             /\ lives' = lives
             /\ level' = level
             /\ board' = board
             /\ player'.x = player.x
             /\ player'.y = player.y
             /\ Tagged(log', "gameOver") = {}
             /\ Tagged(log', "lifeLost") = {}]_vars

\* C8: restart() fires "restart" before the "level cleared" of level 0 and
\* leaves level at 0, lives at maxLives, the board of level 0 as authored and
\* the speed bounds a constructed game has, from whatever state it is called.
C8_RestartFromAnyState ==
    \A t \in restart(Sampled(State)) :
        /\ Count(t.log, <<"restart">>) = 1
        /\ Count(t.log, <<"levelCleared", 0>>) = 1
        /\ First(t.log, <<"restart">>) < First(t.log, <<"levelCleared", 0>>)
        /\ t.level = 0
        /\ t.lives = MaxLives
        /\ Authored(t.board, Descriptor(0))
        /\ \A c \in Constructed(levels, random) :
              /\ t.minEnemySpeed = c.minEnemySpeed
              /\ t.maxEnemySpeed = c.maxEnemySpeed

\* a completed game was restarted, by the key 'quit'
C8_Witness ==
    /\ Has(log, <<"restart">>)
    /\ Has(log, <<"levelCleared", 0>>)
    /\ congratulationsShown
    /\ level = 0
    /\ lives = MaxLives
    /\ minEnemySpeed = InitialMinEnemySpeed + 1

\* C9: pause() on a paused game and resume() on a running game change
\* nothing and fire nothing; pause() on a running game fires "paused" once
\* and resume() on a paused game fires "resumed" once, and a second call
\* fires nothing; the input 'pause' toggles paused.
C9_PauseResumeIdempotent ==
    /\ paused => pause(State) = State
    /\ ~paused => resume(State) = {State}
    /\ ~paused =>
          LET t == pause(State) IN
          /\ t.paused
          /\ Count(t.log, <<"paused">>) = 1
          /\ Tagged(t.log, "resumed") = {}
          /\ pause(t) = t
    /\ paused =>
          \A t \in resume(State) :
              /\ ~t.paused
              /\ Count(t.log, <<"resumed">>) = 1
              /\ Tagged(t.log, "paused") = {}
              /\ resume(t) = {t}
    /\ \A t \in PlayerHandleInput(State, "pause") : t.paused = ~paused

\* the input 'pause' has resumed a paused game
C9_Witness ==
    /\ ~paused
    /\ Has(log, <<"resumed">>)
    /\ ~characterSelector.hasFocus

\* C10: on a paused game, moveTo(x, y) and the inputs left, up, right and
\* down change nothing (position, lives, items, timers, events), and
\* resume() does not move the player unless its frame calls levelUp() or
\* reset().
C10_PausedMovesDropped ==
    paused =>
        /\ \A key \in Moves : PlayerHandleInput(State, key) = {State}
        /\ \A x \in 0..(board.width - 1), y \in 0..(board.height - 1) :
              moveTo(State, x, y) = {State}
        /\ \A t \in resume(State) :
              (~Has(t.log, <<"levelUp">>) /\ ~Has(t.log, <<"reset">>)) =>
                  /\ t.player = player
                  /\ t.board = board
                  /\ t.lives = lives

\* the game is paused with the player next to an item
C10_Witness ==
    /\ paused
    /\ ~characterSelector.hasFocus
    /\ player.x < board.width - 1
    /\ getItem(board, player.y, player.x + 1) # Item.None

\* the item kinds initializePlayer registers an effect for
Registered ==
    {Item.Heart, Item.Star, Item.Key, Item.Rock, Item.BlueGem, Item.GreenGem, Item.OrangeGem}

\* the cells of the current board
Rows == 0..(board.height - 1)

Cols == 0..(board.width - 1)

Destination(key) ==
    CASE key = "left" -> [x |-> player.x - 1, y |-> player.y]
      [] key = "up" -> [x |-> player.x, y |-> player.y - 1]
      [] key = "right" -> [x |-> player.x + 1, y |-> player.y]
      [] key = "down" -> [x |-> player.x, y |-> player.y + 1]

Inside(d) == d.x \in Cols /\ d.y \in Rows

\* the move input key leaves the player at the destination if it is inside
\* the board, where it was if not
MovedOneTile(t, key) ==
    LET d == Destination(key) IN
    IF Inside(d) THEN t.player.x = d.x /\ t.player.y = d.y
    ELSE t.player.x = player.x /\ t.player.y = player.y

\* C12, as stated: on a game that is not paused each of left, up, right and
\* down leaves the player one tile further in that direction when that tile
\* is inside the board, and where it was when it is not.
C12_MovesOneTile ==
    ~paused =>
        \A key \in Moves : \A t \in PlayerHandleInput(State, key) : MovedOneTile(t, key)

\* C12, amended: the same, unless the destination holds a Key on a level
\* that is not the last; the move then leaves the player where levelUp()
\* spawns it, on the bottom row of the next board.
C12_MovesOneTileUnlessKey ==
    ~paused =>
        \A key \in Moves :
            \A t \in PlayerHandleInput(State, key) :
                LET d == Destination(key) IN
                IF Inside(d) /\ getItem(board, d.y, d.x) = Item.Key /\ level + 1 < Len(levels)
                THEN /\ t.level = level + 1
                     /\ t.player.y = t.board.height - 1
                     /\ t.player.x \in 0..(t.board.width - 1)
                ELSE MovedOneTile(t, key)

\* the player has moved onto a Water tile of the second level
C12_Witness ==
    /\ ~paused
    /\ level = 1
    /\ getBlock(board, player.y, player.x) = Block.Water
    /\ log = <<>>

\* the cells of the current board that hold an item of the kind
Holding(kind) == {c \in [x : Cols, y : Rows] : getItem(board, c.y, c.x) = kind}

Last(q) == q[Len(q)]

\* C13: a move that collects a Star while the player is not indestructible
\* sets indestructible, gives the player the '-star' variant of its sprite
\* and schedules one timer, which, whenever it fires, clears indestructible
\* and gives back the sprite of before the move; a move that collects a Star
\* while the player is indestructible schedules no timer and changes neither
\* indestructible nor the sprite.
C13_StarWindow ==
    /\ ~paused =>
          \A c \in Holding(Item.Star) :
              \A t \in moveTo(State, c.x, c.y) :
                  IF player.indestructible
                  THEN /\ t.timers = timers
                       /\ t.player.indestructible
                       /\ t.player.sprite = player.sprite
                  ELSE /\ t.player.indestructible
                       /\ t.player.sprite = starSprite(player.sprite)
                       /\ t.player.sprite # player.sprite
                       /\ Len(t.timers) = Len(timers) + 1
                       /\ Last(t.timers) = [kind |-> Item.Star, sprite |-> player.sprite]
    /\ (timers # <<>> /\ Head(timers).kind = Item.Star) =>
          LET u == timerBody(State, Head(timers)) IN
          /\ ~u.player.indestructible
          /\ u.player.sprite = Head(timers).sprite

\* the indestructible player, its Star timer pending, is about to collect
\* another Star
C13_Witness ==
    /\ ~paused
    /\ player.indestructible
    /\ player.sprite = starSprite(characterSprite("boy"))
    /\ timers # <<>>
    /\ Head(timers) = [kind |-> Item.Star, sprite |-> characterSprite("boy")]
    /\ player.x < board.width - 1
    /\ getItem(board, player.y, player.x + 1) = Item.Star

\* the indices of the Water tiles in a tile string
WaterOf(blocks) == {k \in 1..Len(blocks) : blocks[k] = Block.Water}

\* the indices, in the tile string of the current board, of the cells pos
IndicesOf(pos) == {pos[i].row * board.width + pos[i].col + 1 : i \in 1..Len(pos)}

\* C14: a move that collects a Rock turns every Water tile of the board into
\* Stone, changes no other tile and schedules one timer, which holds the
\* level and the tiles that were Water; when a Rock timer fires on the level
\* it holds, the tiles it holds are Water and no other tile changes; when it
\* fires on another level, no tile changes.
C14_RockRevert ==
    /\ ~paused =>
          \A c \in Holding(Item.Rock) :
              \A t \in moveTo(State, c.x, c.y) :
                  /\ Len(t.board.blocks) = Len(board.blocks)
                  /\ \A k \in 1..Len(board.blocks) :
                        t.board.blocks[k] = IF k \in WaterOf(board.blocks) THEN Block.Stone
                                            ELSE board.blocks[k]
                  /\ Len(t.timers) = Len(timers) + 1
                  /\ Last(t.timers).kind = Item.Rock
                  /\ Last(t.timers).level = level
                  /\ IndicesOf(Last(t.timers).pos) = WaterOf(board.blocks)
    /\ (timers # <<>> /\ Head(timers).kind = Item.Rock) =>
          LET u == timerBody(State, Head(timers)) IN
          IF Head(timers).level = level
          THEN /\ Len(u.board.blocks) = Len(board.blocks)
               /\ \A k \in 1..Len(board.blocks) :
                     u.board.blocks[k] = IF k \in IndicesOf(Head(timers).pos) THEN Block.Water
                                         ELSE board.blocks[k]
          ELSE u.board.blocks = board.blocks

\* the timer of a Rock that turned Water into Stone is pending on its level,
\* the player standing on the top row on a tile that was Water
C14_Witness ==
    /\ timers # <<>>
    /\ Head(timers).kind = Item.Rock
    /\ Head(timers).level = level
    /\ Head(timers).pos # <<>>
    /\ WaterOf(board.blocks) = {}
    /\ player.y = 0
    /\ player.y * board.width + player.x + 1 \in IndicesOf(Head(timers).pos)

\* the level on which the effect that scheduled the timer t ran
CollectedAt(t) == IF "level" \in DOMAIN t THEN t.level ELSE t.at

\* C15: when the timer of a BlueGem collected on level N fires on level N+1,
\* the speeds of the enemies of level N+1 are after the firing what they
\* were before it.
C15_BlueGemNextLevel ==
    (/\ timers # <<>>
     /\ Head(timers).kind = Item.BlueGem
     /\ level = CollectedAt(Head(timers)) + 1
     /\ level < Len(levels)) =>
        \A i \in 1..Len(enemies) :
            timerBody(State, Head(timers)).enemies[i].speed = enemies[i].speed

\* C16: a move that collects a GreenGem sets the speed of every enemy to 0
\* and schedules one timer, which holds the level and the speeds the enemies
\* had before the move; when a GreenGem timer fires on the level it holds,
\* each enemy's speed is the one the timer holds for it; when it fires on
\* another level, no enemy changes.
C16_GreenGemFreeze ==
    /\ ~paused =>
          \A c \in Holding(Item.GreenGem) :
              \A t \in moveTo(State, c.x, c.y) :
                  /\ Len(t.enemies) = Len(enemies)
                  /\ \A i \in 1..Len(enemies) : t.enemies[i].speed = QInt(0)
                  /\ Len(t.timers) = Len(timers) + 1
                  /\ Last(t.timers).kind = Item.GreenGem
                  /\ Last(t.timers).level = level
                  /\ Last(t.timers).speeds = [i \in 1..Len(enemies) |-> enemies[i].speed]
    /\ (timers # <<>> /\ Head(timers).kind = Item.GreenGem) =>
          LET u == timerBody(State, Head(timers)) IN
          IF Head(timers).level = level
          THEN /\ Len(u.enemies) = Len(enemies)
               /\ Len(Head(timers).speeds) = Len(enemies)
               /\ \A i \in 1..Len(enemies) : u.enemies[i].speed = Head(timers).speeds[i]
          ELSE u.enemies = enemies

\* a GreenGem was collected from moving enemies: they stand still, and the
\* timer that holds their speeds is pending on its level
C16_Witness ==
    /\ timers # <<>>
    /\ Head(timers).kind = Item.GreenGem
    /\ Head(timers).level = level
    /\ enemies # <<>>
    /\ \A i \in 1..Len(enemies) :
          /\ enemies[i].speed = QInt(0)
          /\ Head(timers).speeds[i] # QInt(0)

\* the items whose effect schedules a reversal of tiles or of speeds
Reversed == {Item.Rock, Item.BlueGem, Item.GreenGem}

\* C17: when the last handler called levelUp(), which installed a board and
\* enemies, while the timer of a Rock, a BlueGem or a GreenGem was pending,
\* the firing of that timer leaves every tile and every enemy's speed
\* unchanged.
C17_ReversalOnItsOwnLevel ==
    (/\ Has(log, <<"levelUp">>)
     /\ level < Len(levels)
     /\ timers # <<>>
     /\ Head(timers).kind \in Reversed) =>
        LET u == timerBody(State, Head(timers)) IN
        /\ u.board.blocks = board.blocks
        /\ Len(u.enemies) = Len(enemies)
        /\ \A i \in 1..Len(enemies) : u.enemies[i].speed = enemies[i].speed

\* the tiles, the roads and the size of the board b are those the descriptor d describes
AuthoredTiles(b, d) ==
    /\ b.width = parseInt(d[1])
    /\ b.height = parseInt(d[2])
    /\ b.roads = [i \in 1..Len(d[3]) |-> parseInt(d[3][i])]
    /\ b.blocks = d[4]

\* C18: a move that collects a Key on level L, one of the levels of the
\* game, returns with level = L + 1;
\* when L + 1 is below levels.length, the tiles, roads and size of the board
\* are those of the descriptor of L + 1, there is one enemy per road of it
\* at x = -1 with a speed within the bounds, lives is maxLives, "level
\* cleared" has fired with L + 1 and the player is on the bottom row of the
\* board; when L is the last level, "completed" has fired once, "level
\* cleared" has not, and the board, but for the Key, and the enemies are
\* the ones before the move.
C18_KeyAdvances ==
    (~paused /\ level < Len(levels)) =>
        \A c \in Holding(Item.Key) :
            \A t \in moveTo(Sampled(State), c.x, c.y) :
                /\ t.level = level + 1
                /\ IF level + 1 < Len(levels)
                   THEN /\ AuthoredTiles(t.board, Descriptor(level + 1))
                        /\ Len(t.enemies) = Len(t.board.roads)
                        /\ \A i \in 1..Len(t.enemies) :
                              /\ t.enemies[i].x = QInt(-1)
                              /\ t.enemies[i].y = t.board.roads[i]
                              /\ QIsInt(t.enemies[i].speed)
                              /\ ~QLess(t.enemies[i].speed, QInt(t.minEnemySpeed))
                              /\ ~QLess(QInt(t.maxEnemySpeed), t.enemies[i].speed)
                        /\ t.lives = MaxLives
                        /\ Count(t.log, <<"levelCleared", level + 1>>) = 1
                        /\ ~Has(t.log, <<"completed">>)
                        /\ t.player.y = t.board.height - 1
                        /\ t.player.x \in 0..(t.board.width - 1)
                   ELSE /\ Count(t.log, <<"completed">>) = 1
                        /\ Tagged(t.log, "levelCleared") = {}
                        /\ t.board = removeItem(board, c.y, c.x)
                        /\ t.enemies = enemies
                        /\ t.lives = lives

\* the player stands next to a Key on the last level
C18_LastLevel ==
    /\ ~paused
    /\ level = Len(levels) - 1
    /\ player.x < board.width - 1
    /\ getItem(board, player.y, player.x + 1) = Item.Key

\* the player, who paid a life for it, stands on the bottom row of the first
\* of two levels, next to a Key
C18_Witness ==
    /\ ~paused
    /\ level = 0
    /\ Len(levels) = 2
    /\ lives < MaxLives
    /\ player.y = board.height - 1
    /\ player.x < board.width - 1
    /\ getItem(board, player.y, player.x + 1) = Item.Key

\* the cells of the bottom row right of column 0 that hold no item
EmptyBottom ==
    {col \in 1..(board.width - 1) : getItem(board, board.height - 1, col) = Item.None}

HelpKinds == {Item.Heart, Item.Star, Item.Key, Item.Rock, Item.BlueGem, Item.GreenGem}

\* the largest member of a set of numbers
Max(S) == CHOOSE n \in S : \A m \in S : m <= n

\* C20: helpPlayer() called with lives >= 1 while a cell of the bottom row
\* right of column 0 is empty takes exactly one life, puts the player at
\* column 0 of the bottom row and sets the empty cell of largest column to
\* one of the six kinds, each of which Math.random() can choose; every
\* other cell, column 0 of the bottom row among them, keeps its item and
\* every tile stays. Called with lives = 0 it changes nothing.
C20_HelpPlacesOne ==
    /\ (lives >= 1 /\ EmptyBottom # {}) =>
          LET row == board.height - 1
              col == Max(EmptyBottom)
              T == helpPlayer([State EXCEPT !.random = HelpSeeds])
          IN /\ \A t \in T :
                    /\ t.lives = lives - 1
                    /\ t.player.x = 0
                    /\ t.player.y = row
                    /\ getItem(t.board, row, col) \in HelpKinds
                    /\ \A c \in [x : Cols, y : Rows] :
                          (c.x # col \/ c.y # row) =>
                              getItem(t.board, c.y, c.x) = getItem(board, c.y, c.x)
                    /\ Len(t.board.items) = Len(board.items)
                    /\ t.board.blocks = board.blocks
             /\ {getItem(t.board, row, col) : t \in T} = HelpKinds
    /\ lives = 0 => helpPlayer(State) = {State}

\* the player has lives left, off the bottom-left tile, and the rightmost
\* cell of the bottom row holds an item while the one left of it is empty
C20_Witness ==
    /\ lives >= 1
    /\ (player.x # 0 \/ player.y # board.height - 1)
    /\ getItem(board, board.height - 1, board.width - 1) # Item.None
    /\ Max(EmptyBottom \cup {0}) = board.width - 2

\* the members of a sequence
Range(q) == {q[i] : i \in 1..Len(q)}

\* C21: update(dt) of an enemy at x with speed v gives x + v * dt; when that
\* is at least the width of the board, the enemy is at x = -1, on a row of
\* board.roads, with an integer speed within [minEnemySpeed, maxEnemySpeed];
\* when it is less, the enemy is at x + v * dt with its row and speed; no
\* other enemy changes.
C21_EnemyUpdate ==
    \A i \in 1..Len(enemies), dt \in Durations :
        \A t \in EnemyUpdate(Sampled(State), i - 1, dt) :
            LET e == enemies[i]
                x == QAdd(e.x, QMul(e.speed, dt))
                f == t.enemies[i]
            IN /\ Len(t.enemies) = Len(enemies)
               /\ \A j \in 1..Len(enemies) : j # i => t.enemies[j] = enemies[j]
               /\ IF ~QLess(x, QInt(board.width))
                  THEN /\ f.x = QInt(-1)
                       /\ f.y \in Range(board.roads)
                       /\ QIsInt(f.speed)
                       /\ ~QLess(f.speed, QInt(minEnemySpeed))
                       /\ ~QLess(QInt(maxEnemySpeed), f.speed)
                  ELSE /\ f.x = x
                       /\ f.y = e.y
                       /\ f.speed = e.speed

\* an enemy that has moved is one update of a second away from the right
\* edge, exactly
C21_Witness ==
    \E i \in 1..Len(enemies) :
        /\ enemies[i].x # QInt(-1)
        /\ QAdd(enemies[i].x, enemies[i].speed) = QInt(board.width)

\* the kinds of tile
Blocks == {Block.Water, Block.Grass, Block.Stone}

\* the cells of the current board
Cells == [x : Cols, y : Rows]

\* C22: on the current board, for every cell inside it and every kind of
\* tile k, getBlock after setBlock(row, col, k) returns k at that cell and,
\* at every other cell, what it returned before.
C22_SetGetBlock ==
    \A c \in Cells, k \in Blocks :
        LET b == setBlock(board, c.y, c.x, k) IN
        /\ getBlock(b, c.y, c.x) = k
        /\ \A d \in Cells : d # c => getBlock(b, d.y, d.x) = getBlock(board, d.y, d.x)

\* a Rock has turned the Water of the second level into Stone
C22_Witness ==
    /\ board.width = 5
    /\ timers # <<>>
    /\ Head(timers).kind = Item.Rock
    /\ Len(Head(timers).pos) = 3
    /\ \A c \in Cells : getBlock(board, c.y, c.x) # Block.Water

\* the board of the current level as new Board builds it
Constructing == Board(Descriptor(BoardLevel(level)))

\* C23: on the current board, whatever setItem and removeItem calls it has
\* had, getItem after resetItems() returns for every cell inside the board
\* the item the board was constructed with: Item.None everywhere when the
\* descriptor has no item layer.
C23_ResetItems ==
    LET b == resetItems(board) IN
    /\ \A c \in Cells : getItem(b, c.y, c.x) = getItem(Constructing, c.y, c.x)
    /\ Len(Descriptor(BoardLevel(level))) = 4 =>
          \A c \in Cells : getItem(b, c.y, c.x) = Item.None

\* on the board without an item layer, a Rock placed by setItem was removed
\* by removeItem, its timer pending, and another was placed
C23_Witness ==
    /\ Len(Descriptor(BoardLevel(level))) = 4
    /\ board.items # Undefined
    /\ timers # <<>>
    /\ Head(timers).kind = Item.Rock
    /\ Holding(Item.Rock) # {}

\* C24: the tile string of the current board and, once there is one, its
\* item string have width * height characters.
C24_StringLengths ==
    /\ Len(board.blocks) = board.width * board.height
    /\ board.items # Undefined => Len(board.items) = board.width * board.height

\* the coordinates next to the current board and outside it
Outside ==
    {c \in [x : -1..board.width, y : -1..board.height] : c.x \notin Cols \/ c.y \notin Rows}

\* the kinds of item
Items == {Item.BlueGem, Item.GreenGem, Item.OrangeGem, Item.Heart, Item.Key, Item.Rock,
          Item.Star, Item.None}

\* C25: setBlock, setItem and removeItem with a row or a column outside the
\* current board leave its tiles and its items as they are.
C25_OutOfRangeKeepsBoard ==
    \A c \in Outside :
        /\ \A k \in Blocks : setBlock(board, c.y, c.x, k) = board
        /\ \A k \in Items : setItem(board, c.y, c.x, k) = board
        /\ removeItem(board, c.y, c.x) = board

\* C26: the input 'quit' returns with the game not paused, "resumed" fired
\* once when it was paused and not at all when it was not, the character
\* selector focused, "restart" fired, level = 0, lives = maxLives, the board
\* of level 0 as authored, one enemy per road of it at x = -1 with a speed
\* within the bounds, and the speed bounds at their values of level 0.
C26_QuitRestarts ==
    \A t \in PlayerHandleInput(Sampled(State), "quit") :
        /\ ~t.paused
        /\ Count(t.log, <<"resumed">>) = (IF paused THEN 1 ELSE 0)
        /\ t.characterSelector.hasFocus
        /\ Count(t.log, <<"restart">>) = 1
        /\ t.level = 0
        /\ t.lives = MaxLives
        /\ Authored(t.board, Descriptor(0))
        /\ t.board.initialItems = Descriptor(0)[5]
        /\ t.player.y = t.board.height - 1
        /\ t.minEnemySpeed = InitialMinEnemySpeed + 1
        /\ t.maxEnemySpeed = InitialMaxEnemySpeed + 1
        /\ Len(t.enemies) = Len(t.board.roads)
        /\ \A i \in 1..Len(t.enemies) :
              /\ t.enemies[i].x = QInt(-1)
              /\ t.enemies[i].y = t.board.roads[i]
              /\ QIsInt(t.enemies[i].speed)
              /\ ~QLess(t.enemies[i].speed, QInt(t.minEnemySpeed))
              /\ ~QLess(QInt(t.maxEnemySpeed), t.enemies[i].speed)

\* the game is paused by the player, who has lost a life and left the
\* bottom row, and whose keys go to the player
C26_Witness ==
    /\ paused
    /\ ~characterSelector.hasFocus
    /\ lives < MaxLives
    /\ lives >= 0
    /\ player.y < board.height - 1
    /\ \E i \in 1..Len(enemies) : enemies[i].x # QInt(-1)

\* the index in the log lg of its only entry e
Only(lg, e) == CHOOSE i \in 1..Len(lg) : lg[i] = e

\* C27: update(dt) calls update once for each enemy, in the order of the
\* list, then the update of the player once, then checkCollisions once, and
\* reset() at most once, after checkCollisions; lives is afterwards at least
\* what it was before minus 1.
C27_FrameOrder ==
    \A dt \in Durations :
        \A t \in update(Sampled(State), dt) :
            /\ Count(t.log, <<"player.update">>) = 1
            /\ Count(t.log, <<"checkCollisions">>) = 1
            /\ Cardinality(Tagged(t.log, "enemy.update")) = Len(enemies)
            /\ \A i \in 1..Len(enemies) :
                  /\ Count(t.log, <<"enemy.update", i - 1>>) = 1
                  /\ Only(t.log, <<"enemy.update", i - 1>>) = i
            /\ Only(t.log, <<"player.update">>) = Len(enemies) + 1
            /\ Only(t.log, <<"player.update">>) < Only(t.log, <<"checkCollisions">>)
            /\ Count(t.log, <<"reset">>) <= 1
            /\ Has(t.log, <<"reset">>) =>
                  Only(t.log, <<"checkCollisions">>) < Only(t.log, <<"reset">>)
            /\ t.lives >= lives - 1
            /\ t.lives < lives => Has(t.log, <<"reset">>)

\* a frame is due while the player, with lives left, is drowning and an
\* enemy is about to leave the board
C27_Witness ==
    /\ rafPending > 0
    /\ lives >= 1
    /\ isPlayerDrowning(State)
    /\ \E i \in 1..Len(enemies) :
          ~QLess(QAdd(enemies[i].x, enemies[i].speed), QInt(board.width))

\* the speed bounds of a state on one of the levels of the game
RampedBounds ==
    /\ (0 <= level /\ level < Len(levels)) =>
          /\ minEnemySpeed = level + InitialMinEnemySpeed + 1
          /\ maxEnemySpeed = level + InitialMaxEnemySpeed + 1
    /\ minEnemySpeed <= maxEnemySpeed

\* a step that changes a speed bound has called levelUp(), and has raised
\* both bounds by 1 unless it has called restart()
RampedStep ==
    (minEnemySpeed' # minEnemySpeed \/ maxEnemySpeed' # maxEnemySpeed) =>
        /\ Has(log', <<"levelUp">>)
        /\ \/ Has(log', <<"restart">>)
           \/ /\ minEnemySpeed' = minEnemySpeed + 1
              /\ maxEnemySpeed' = maxEnemySpeed + 1

\* C28: on a level of the game minEnemySpeed is level + 2 and maxEnemySpeed
\* level + 6, minEnemySpeed never exceeds maxEnemySpeed, and the bounds
\* change only in a handler that calls levelUp(), by 1 each unless the
\* handler calls restart(); a levelUp() that installs a level raises each by
\* exactly 1.
C28_SpeedBounds ==
    /\ []RampedBounds
    /\ [][RampedStep]_vars
    /\ [](\A t \in levelUp(State) :
             t.level < Len(levels) =>
                 /\ t.minEnemySpeed = minEnemySpeed + 1
                 /\ t.maxEnemySpeed = maxEnemySpeed + 1)

\* the second level was reached, then left by 'quit' for the first
C28_Witness ==
    /\ level = 0
    /\ Has(log, <<"restart">>)
    /\ minEnemySpeed = 2
    /\ maxEnemySpeed = 6
    /\ timers # <<>>
    /\ Head(timers).kind = Item.GreenGem
    /\ Head(timers).level = 1

\* the character the selector stands on: while the player has the focus,
\* the one chosen last
Chosen == characters[characterSelector.position + 1]

\* C29: while the player has the focus, player.sprite is the sprite of the
\* character chosen last or a '-star' variant of it.
C29_IdentityPersists ==
    ~characterSelector.hasFocus => player.sprite.name = characterSprite(Chosen).name

\* in the state s the timer of a Rock collected on the level of s is pending
RockWindow(s) ==
    \E i \in 1..Len(s.timers) : s.timers[i].kind = Item.Rock /\ s.timers[i].level = s.level

\* in the state s no tile is Water while the timer of a Rock is pending
Protected(s) == RockWindow(s) => WaterOf(s.board.blocks) = {}

\* the state s after its oldest timer has fired
Fired(s) == [timerBody(s, Head(s.timers)) EXCEPT !.timers = Tail(s.timers)]

\* C30: while the timer of a Rock collected on the current level is pending,
\* no tile of the board is Water: from a state where that holds, it holds
\* after a move that collects a Rock, and still after the oldest timer has
\* fired upon that move.
C30_RockProtects ==
    (~paused /\ Protected(State)) =>
        \A c \in Holding(Item.Rock) :
            \A t \in moveTo(State, c.x, c.y) :
                t.level = level =>
                    /\ Protected(t)
                    /\ Protected(Fired(t))

\* C31: at any time at most one call of main is scheduled with
\* requestAnimationFrame, also after pause and resume, quit, and a restart
\* from the game-over or the congratulations screen.
C31_OneFrameLoop == rafPending <= 1

\* C32: a move that collects a Key on level L, L + 1 being one of the levels
\* of the game, returns with a board whose item string is the item layout of
\* the descriptor of L + 1.
C32_KeyLeavesItems ==
    (~paused /\ level + 1 < Len(levels)) =>
        \A c \in Holding(Item.Key) :
            \A t \in moveTo(State, c.x, c.y) :
                t.board.items = Descriptor(level + 1)[5]

\* the timer of a BlueGem or a GreenGem is pending
GemPending ==
    \E i \in 1..Len(timers) : timers[i].kind \in {Item.BlueGem, Item.GreenGem}

\* C33: whenever no BlueGem or GreenGem timer is pending, the speed of every
\* enemy is an integer from minEnemySpeed to maxEnemySpeed.
C33_SpeedsWithinBounds ==
    ~GemPending =>
        \A i \in 1..Len(enemies) :
            /\ QIsInt(enemies[i].speed)
            /\ ~QLess(enemies[i].speed, QInt(minEnemySpeed))
            /\ ~QLess(QInt(maxEnemySpeed), enemies[i].speed)

\* the timers pending in the state s are GreenGem timers set on the level of s
GreenGemTimers(s) ==
    \A i \in 1..Len(s.timers) :
        s.timers[i].kind = Item.GreenGem /\ s.timers[i].level = s.level

\* the state s after every pending timer has fired, the oldest first
RECURSIVE FiredAll(_)
FiredAll(s) == IF s.timers = <<>> THEN s ELSE FiredAll(Fired(s))

\* no enemy of the state s has speed 0
NoneFrozen(s) == \A i \in 1..Len(s.enemies) : s.enemies[i].speed # QInt(0)

\* C34: on a level of the game, when the pending timers are GreenGem timers
\* set on the current level, no enemy has speed 0 once they have all fired;
\* the same after a move that collects a GreenGem.
C34_FreezeEnds ==
    /\ (level < Len(levels) /\ timers # <<>> /\ GreenGemTimers(State)) =>
          NoneFrozen(FiredAll(State))
    /\ (level < Len(levels) /\ ~paused) =>
          \A c \in Holding(Item.GreenGem) :
              \A t \in moveTo(State, c.x, c.y) :
                  GreenGemTimers(t) => NoneFrozen(FiredAll(t))

\* the input symbols of Player.handleInput other than pause and quit
OtherKeys == Moves \cup {"help", "other"}

\* C35: while the game is paused, Player.handleInput with a symbol other than
\* pause and quit leaves lives, the position of the player and the tiles and
\* items of the board unchanged.
C35_PausedInputDropped ==
    paused =>
        \A key \in OtherKeys :
            \A t \in PlayerHandleInput(State, key) :
                /\ t.lives = lives
                /\ t.player.x = player.x
                /\ t.player.y = player.y
                /\ t.board.blocks = board.blocks
                /\ t.board.items = board.items

\* C36: the player stands on a cell of the current board:
\* 0 <= player.x < board.width and 0 <= player.y < board.height.
C36_PlayerOnBoard ==
    /\ player.x \in 0..(board.width - 1)
    /\ player.y \in 0..(board.height - 1)

\* the last handler took the game to the next level, whose board has fewer
\* columns, with a player who stood beyond them
C36_Witness ==
    /\ level >= 1
    /\ level < Len(levels)
    /\ board.width < parseInt(Descriptor(level - 1)[1])
    /\ Has(log, <<"levelUp">>)
    /\ ~Has(log, <<"restart">>)
    /\ Len(board.items) > board.width * board.height

\* the Star timers pending in the state s
StarTimers(s) == {i \in 1..Len(s.timers) : s.timers[i].kind = Item.Star}

\* in the state s one Star timer is pending if the player is indestructible,
\* none if it is not
StarExact(s) ==
    Cardinality(StarTimers(s)) = IF s.player.indestructible THEN 1 ELSE 0

\* C37: the player is indestructible exactly while one Star timer is pending
\* and no more than one Star timer is ever pending, in every state, after
\* every input of the player and after the oldest timer has fired; and an
\* indestructible player becomes destructible again.
C37_StarTimer ==
    /\ [](/\ StarExact(State)
          /\ \A key \in OtherKeys \cup {"pause", "quit"} :
                \A t \in PlayerHandleInput(State, key) : StarExact(t)
          /\ timers # <<>> => StarExact(Fired(State)))
    /\ (player.indestructible ~> ~player.indestructible)

\* the indestructible player, its Star timer pending, stands next to another
\* Star
C37_Witness ==
    /\ ~paused
    /\ player.indestructible
    /\ Cardinality(StarTimers(State)) = 1
    /\ player.x < board.width - 1
    /\ getItem(board, player.y, player.x + 1) = Item.Star

\* a Rock timer is pending
RockPending == \E i \in 1..Len(timers) : timers[i].kind = Item.Rock

\* C38: whenever no Rock timer is pending, the tiles of the current board are
\* the tile string of the descriptor of the level the board was built from.
C38_TilesAuthored ==
    ~RockPending => board.blocks = Descriptor(BoardLevel(level))[4]

\* C38, amended: whenever no Rock timer is pending and the game is on one of
\* its levels, the tiles of the current board are the tile string of the
\* descriptor of that level.
C38_TilesAuthoredInPlay ==
    (~RockPending /\ level < Len(levels)) => board.blocks = Descriptor(level)[4]

\* the timer of a Rock that turned Water into Stone has just fired on its
\* level and has turned the Stone into Water again
C38_Witness ==
    /\ ~RockPending
    /\ level < Len(levels)
    /\ WaterOf(board.blocks) # {}
    /\ lives < MaxLives
    /\ log = <<>>
    /\ helped(board) = 0
    /\ getBlock(board, player.y, player.x) = Block.Water

\* no cell of the bottom row of the board b is Water
DryBottom(b) == \A col \in 0..(b.width - 1) : getBlock(b, b.height - 1, col) # Block.Water

\* the state s with the player on the bottom row: the player is neither hit
\* nor drowning, and the frame that follows takes no life
SafeBelow(s) ==
    s.player.y = s.board.height - 1 =>
        /\ ~wasPlayerHit(s)
        /\ ~isPlayerDrowning(s)
        /\ \A dt \in Durations : \A u \in main(s, dt) : u.lives = s.lives

\* C39: the bottom row of every level of initializeLevels has no Water and
\* is no road; the bottom row of the current board has no Water and no
\* enemy; a player on the bottom row is neither hit nor drowning; reset()
\* that leaves a life, levelUp() that installs a level and helpPlayer() with
\* a life to pay put the player on the bottom row, and the frame that
\* follows takes no life.
C39_BottomRowSafe ==
    /\ \A k \in 1..Len(AllLevels) :
          LET b == Board(AllLevels[k]) IN
          /\ DryBottom(b)
          /\ \A i \in 1..Len(b.roads) : b.roads[i] # b.height - 1
    /\ DryBottom(board)
    /\ \A i \in 1..Len(enemies) : enemies[i].y # board.height - 1
    /\ SafeBelow(State)
    /\ \A t \in reset(State) :
          ~Has(t.log, <<"gameOver">>) => t.player.y = t.board.height - 1 /\ SafeBelow(t)
    /\ \A t \in levelUp(State) :
          level + 1 < Len(levels) => t.player.y = t.board.height - 1 /\ SafeBelow(t)
    /\ \A t \in helpPlayer(State) :
          lives >= 1 => t.player.y = t.board.height - 1 /\ SafeBelow(t)

\* past the first level, the player, who has paid a life, stands on the
\* bottom row in the column of an enemy while frames run
C39_Witness ==
    /\ level > 0
    /\ level < Len(levels)
    /\ lives < MaxLives
    /\ rafPending > 0
    /\ player.y = board.height - 1
    /\ \E i \in 1..Len(enemies) : closeEnough(QInt(player.x), enemies[i].x)

====
